---- MODULE Spec2Model ----
(***************************************************************************)
(* Model of the btree crate: the facade BTreeStore (lib.rs), the           *)
(* transaction manager and insert transaction (btreeindex/version.rs),     *)
(* the insert backtrack (btreeindex/insertion.rs) and the append-only blob *)
(* file (flatfile.rs).                                                     *)
(***************************************************************************)
EXTENDS Integers, Sequences, FiniteSets, TLC

\* ------------------------------------------------------------------ bounds
MaxKey == 2
MaxAppends == 3
MaxAppendsSeq == 5
MaxBatch == 2
MaxDepth == 3
MaxKeyTree == 3
MaxAppendsTree == 7
MaxNodeKey == 3
MaxPageId == 2
MaxGuards == 2
MaxAppendCalls == 2
MaxAppendsBatch == 8
MaxAppendsLive == 4

Keys == 1..MaxKey
Writers == {"w1", "w2"}
Readers == {"r1"}
NoThread == "none"

\* blobs handed to insert / insert_many: a sequence of bytes
Blobs == {<<7, 7, 7, 7>>, <<9>>}

\* --------------------------------------------------------- program constants
\* MAX_BLOB_SIZE = 2 << SZ_BITS with SZ_BITS = 24
MAX_BLOB_SIZE == 33554432
DATA_START == 4096
LeafCap == 2
InternalCap == 2
FirstPage == 1
NoPage == 0

\* --------------------------------------------------------------- utilities
Put(f, k, v) == [x \in (DOMAIN f) \cup {k} |-> IF x = k THEN v ELSE f[x]]
Del(f, k) == [x \in (DOMAIN f) \ {k} |-> f[x]]
EmptyMap == [x \in {} |-> 0]
Last(s) == s[Len(s)]
Front(s) == SubSeq(s, 1, Len(s) - 1)
Max(a, b) == IF a > b THEN a ELSE b
InsertAt(s, i, e) == SubSeq(s, 1, i - 1) \o <<e>> \o SubSeq(s, i, Len(s))
Range(s) == {s[i] : i \in DOMAIN s}

\* ------------------------------------------------------------------- nodes
\* a node: leaf flag (the page tag), keys, and ptrs = values (leaf) or
\* children (internal)
LeafNode(ks, vs) == [leaf |-> TRUE, keys |-> ks, ptrs |-> vs]
InternalNode(ks, cs) == [leaf |-> FALSE, keys |-> ks, ptrs |-> cs]
new_leaf == LeafNode(<<>>, <<>>)
\* a page that was never written reads as zero bytes: tag 0 (Internal), len 0,
\* one child, the null page id
ZeroPage == InternalNode(<<>>, <<NoPage>>)

\* keys().binary_search(k): Ok(pos) / Err(pos), 0-based
binary_search(ks, k) ==
  [found |-> \E i \in DOMAIN ks : ks[i] = k,
   pos |-> Cardinality({i \in DOMAIN ks : ks[i] < k})]

\* LeafNode::insert, were the new entry put behind the entries of the leaf
\* instead of at the position binary_search gives
leaf_insert_at_the_end(node, key, value) ==
  LET bs == binary_search(node.keys, key)
      ks == Append(node.keys, key)
      vs == Append(node.ptrs, value)
  IN IF bs.found
       THEN [status |-> "DuplicatedKey", node |-> node, mid |-> 0, new_node |-> new_leaf]
     ELSE IF Len(node.keys) < LeafCap
       THEN [status |-> "Ok", node |-> LeafNode(ks, vs), mid |-> 0, new_node |-> new_leaf]
     ELSE [status |-> "Split",
           node |-> LeafNode(SubSeq(ks, 1, (LeafCap + 1) \div 2),
                             SubSeq(vs, 1, (LeafCap + 1) \div 2)),
           mid |-> ks[(LeafCap + 1) \div 2 + 1],
           new_node |-> LeafNode(SubSeq(ks, (LeafCap + 1) \div 2 + 1, Len(ks)),
                                 SubSeq(vs, (LeafCap + 1) \div 2 + 1, Len(vs)))]

\* LeafNode::insert, were the largest key of the left half returned as the
\* split key
leaf_insert_mid_from_left(node, key, value) ==
  LET bs == binary_search(node.keys, key)
      ks == InsertAt(node.keys, bs.pos + 1, key)
      vs == InsertAt(node.ptrs, bs.pos + 1, value)
  IN IF bs.found
       THEN [status |-> "DuplicatedKey", node |-> node, mid |-> 0, new_node |-> new_leaf]
     ELSE IF Len(node.keys) < LeafCap
       THEN [status |-> "Ok", node |-> LeafNode(ks, vs), mid |-> 0, new_node |-> new_leaf]
     ELSE [status |-> "Split",
           node |-> LeafNode(SubSeq(ks, 1, (LeafCap + 1) \div 2),
                             SubSeq(vs, 1, (LeafCap + 1) \div 2)),
           mid |-> ks[(LeafCap + 1) \div 2],
           new_node |-> LeafNode(SubSeq(ks, (LeafCap + 1) \div 2 + 1, Len(ks)),
                                 SubSeq(vs, (LeafCap + 1) \div 2 + 1, Len(vs)))]

\* LeafSplitAt, were the left leaf to keep ceil((cap + 1) / 2) entries
LeafSplitAt_ceil == (LeafCap + 2) \div 2

\* LeafNode::insert
LeafSplitAt == (LeafCap + 1) \div 2
leaf_insert(node, key, value) ==
  LET bs == binary_search(node.keys, key)
      ks == InsertAt(node.keys, bs.pos + 1, key)
      vs == InsertAt(node.ptrs, bs.pos + 1, value)
  IN IF bs.found
       THEN [status |-> "DuplicatedKey", node |-> node, mid |-> 0, new_node |-> new_leaf]
     ELSE IF Len(node.keys) < LeafCap
       THEN [status |-> "Ok", node |-> LeafNode(ks, vs), mid |-> 0, new_node |-> new_leaf]
     ELSE [status |-> "Split",
           node |-> LeafNode(SubSeq(ks, 1, LeafSplitAt), SubSeq(vs, 1, LeafSplitAt)),
           mid |-> ks[LeafSplitAt + 1],
           new_node |-> LeafNode(SubSeq(ks, LeafSplitAt + 1, Len(ks)),
                                 SubSeq(vs, LeafSplitAt + 1, Len(vs)))]

\* InternalNode::insert_first
insert_first(key, left_child, right_child) == InternalNode(<<key>>, <<left_child, right_child>>)

\* InternalSplitAt, were the first key promoted and the left node left with
\* floor((cap - 1) / 2) keys
InternalSplitAt_first == (InternalCap - 1) \div 2

\* InternalNode::insert, were the middle key copied into the right node as
\* a leaf split does
internal_insert_mid_copied(node, key, child) ==
  LET bs == binary_search(node.keys, key)
      ks == InsertAt(node.keys, bs.pos + 1, key)
      cs == InsertAt(node.ptrs, bs.pos + 2, child)
  IN IF Len(node.keys) < InternalCap
       THEN [status |-> "Ok", node |-> InternalNode(ks, cs), mid |-> 0,
             new_node |-> InternalNode(<<>>, <<>>)]
     ELSE [status |-> "Split",
           node |-> InternalNode(SubSeq(ks, 1, (InternalCap + 1) \div 2),
                                 SubSeq(cs, 1, (InternalCap + 1) \div 2 + 1)),
           mid |-> ks[(InternalCap + 1) \div 2 + 1],
           new_node |-> InternalNode(SubSeq(ks, (InternalCap + 1) \div 2 + 1, Len(ks)),
                                     SubSeq(cs, (InternalCap + 1) \div 2 + 1, Len(cs)))]

\* InternalNode::insert(key, right_child): the child goes to the right of its
\* key; on overflow the middle key is promoted, it stays in neither half
InternalSplitAt == (InternalCap + 1) \div 2
internal_insert(node, key, child) ==
  LET bs == binary_search(node.keys, key)
      ks == InsertAt(node.keys, bs.pos + 1, key)
      cs == InsertAt(node.ptrs, bs.pos + 2, child)
  IN IF Len(node.keys) < InternalCap
       THEN [status |-> "Ok", node |-> InternalNode(ks, cs), mid |-> 0,
             new_node |-> InternalNode(<<>>, <<>>)]
     ELSE [status |-> "Split",
           node |-> InternalNode(SubSeq(ks, 1, InternalSplitAt),
                                 SubSeq(cs, 1, InternalSplitAt + 1)),
           mid |-> ks[InternalSplitAt + 1],
           new_node |-> InternalNode(SubSeq(ks, InternalSplitAt + 2, Len(ks)),
                                     SubSeq(cs, InternalSplitAt + 2, Len(cs)))]

\* ------------------------------------------------------------ page manager
new_id(pm) ==
  IF pm.free_list # <<>>
    THEN [id |-> Last(pm.free_list), pm |-> [pm EXCEPT !.free_list = Front(@)]]
    ELSE [id |-> pm.next_page, pm |-> [pm EXCEPT !.next_page = @ + 1]]
remove_page(pm, id) == [pm EXCEPT !.free_list = Append(@, id)]

\* ------------------------------------------------------------- paged store
\* Pages::get_page reads the mapped bytes of page id
get_page(pgs, id) == IF id \in DOMAIN pgs THEN pgs[id] ELSE ZeroPage

\* the borrow checker of Pages: bc = [borrows, guards]; borrows[id] is the
\* kind of the BorrowGuard the Weak of the map entry points to ("None": no
\* entry), guards[id] counts the live BorrowRAIIGuards of each kind, the
\* strong references a Weak can be upgraded to
NoGuards == [Shared |-> 0, Exclusive |-> 0]
upgrade(bc, id) == bc.borrows[id] # "None" /\ bc.guards[id][bc.borrows[id]] > 0

\* BorrowChecker::borrow_mut
borrow_mut(bc, id) ==
  IF upgrade(bc, id)
    THEN [status |-> "panic", bc |-> bc]
    ELSE [status |-> "Ok",
          bc |-> [borrows |-> [bc.borrows EXCEPT ![id] = "Exclusive"],
                  guards |-> [bc.guards EXCEPT ![id].Exclusive = @ + 1]]]

\* BorrowChecker::borrow
borrow(bc, id) ==
  IF upgrade(bc, id)
    THEN IF bc.borrows[id] = "Exclusive"
           THEN [status |-> "panic", bc |-> bc]
           ELSE [status |-> "Ok", bc |-> [bc EXCEPT !.guards[id].Shared = @ + 1]]
    ELSE [status |-> "Ok",
          bc |-> [borrows |-> [bc.borrows EXCEPT ![id] = "Shared"],
                  guards |-> [bc.guards EXCEPT ![id].Shared = @ + 1]]]

\* MmapStorage::get of the bytes of page id, with n pages mapped: outside the
\* mapped bytes it panics
storage_get(n, id) == IF id <= n THEN "page" ELSE "panic"
\* MmapStorage::get_mut: Err when the region exceeds the mapped size
storage_get_mut(n, id) == IF id <= n THEN "Ok" ELSE "Err"

\* ----------------------------------------------------------------- descent
\* the child followed, were Ok(pos) mapped to pos as Err(pos) is
child_for_left_on_equal(node, key) ==
  LET bs == binary_search(node.keys, key)
      upper_pivot == bs.pos
  IN IF upper_pivot < Len(node.ptrs)
       THEN node.ptrs[upper_pivot + 1]
       ELSE node.ptrs[Len(node.ptrs)]

\* the child followed for key at an internal node: Ok(pos) => pos + 1,
\* Err(pos) => pos, and the last child when that index is out of range
child_for(node, key) ==
  LET bs == binary_search(node.keys, key)
      upper_pivot == IF bs.found THEN bs.pos + 1 ELSE bs.pos
  IN IF upper_pivot < Len(node.ptrs)
       THEN node.ptrs[upper_pivot + 1]
       ELSE node.ptrs[Len(node.ptrs)]

\* BTree::lookup from a root: Some(value) / None; get_page(0) panics, and a
\* descent that does not end within MaxDepth nodes never returns
RECURSIVE lookup_from(_, _, _, _)
lookup_from(pgs, id, key, fuel) ==
  IF id = NoPage THEN [status |-> "panic", value |-> 0]
  ELSE IF fuel = 0 THEN [status |-> "hang", value |-> 0]
  ELSE LET node == get_page(pgs, id)
           bs == binary_search(node.keys, key)
       IN IF node.leaf
            THEN IF bs.found
                   THEN [status |-> "Some", value |-> node.ptrs[bs.pos + 1]]
                   ELSE [status |-> "None", value |-> 0]
            ELSE lookup_from(pgs, child_for(node, key), key, fuel - 1)

lookup(pgs, root, key) == lookup_from(pgs, root, key, MaxDepth)

\* ------------------------------------------------------ insert transaction
\* the builder's mutable part: st = [current_root, shadowed_pages, old_ids, pm]
\* (pm is the page manager reached through the builder's MutexGuard)

\* InsertTransactionBuilder::mut_page; old_id = NoPage stands for
\* MutPage::AlreadyInTransaction
mut_page(pgs, st, id) ==
  IF id \in DOMAIN st.shadowed_pages
    THEN [old_id |-> NoPage,
          page |-> [page_id |-> id, node |-> st.shadowed_pages[id]],
          st |-> [st EXCEPT !.shadowed_pages = Del(@, id)]]
    ELSE LET n == new_id(st.pm)
         IN [old_id |-> id,
             page |-> [page_id |-> n.id, node |-> get_page(pgs, id)],
             st |-> [st EXCEPT !.pm = n.pm]]

\* InsertTransactionBuilder::add_shadow
add_shadow(st, old_id, page) ==
  [st EXCEPT !.shadowed_pages = Put(@, page.page_id, page.node),
             !.old_ids = Append(@, old_id)]

\* InsertTransactionBuilder::add_new_node
add_new_node(st, node) ==
  LET n == new_id(st.pm)
  IN [id |-> n.id,
      st |-> [st EXCEPT !.pm = n.pm, !.shadowed_pages = Put(@, n.id, node)]]

\* -------------------------------------------------------- insert backtrack
\* InsertBacktrack::search_for: the loop from `current`, pushing one frame
\* (old_id, page) per node of the path
RECURSIVE search_for(_, _, _, _, _, _)
search_for(pgs, st, current, key, backtrack, fuel) ==
  IF current = NoPage /\ current \notin DOMAIN st.shadowed_pages
    THEN [status |-> "panic", st |-> st, backtrack |-> backtrack]
  ELSE IF fuel = 0
    THEN [status |-> "hang", st |-> st, backtrack |-> backtrack]
  ELSE LET m == mut_page(pgs, st, current)
           pushed == Append(backtrack, [old_id |-> m.old_id, page |-> m.page])
       IN IF m.page.node.leaf
            THEN [status |-> "Ok", st |-> m.st, backtrack |-> pushed]
            ELSE search_for(pgs, m.st, child_for(m.page.node, key), key, pushed, fuel - 1)

\* children().linear_search(id): the first position holding id, 0 when none
linear_search(children, id) ==
  IF \E i \in DOMAIN children : children[i] = id
    THEN CHOOSE i \in DOMAIN children :
           children[i] = id /\ \A j \in 1..(i - 1) : children[j] # id
    ELSE 0

\* InsertBacktrack::rename_parent on the frame at the top of the stack
rename_parent(backtrack, old_id, new_id_) ==
  IF backtrack = <<>> THEN [status |-> "Ok", backtrack |-> backtrack]
  ELSE LET parent == Last(backtrack)
           pos == linear_search(parent.page.node.ptrs, old_id)
       IN IF parent.page.node.leaf \/ pos = 0
            THEN [status |-> "panic", backtrack |-> backtrack]
            ELSE [status |-> "Ok",
                  backtrack |-> [backtrack EXCEPT
                                   ![Len(backtrack)].page.node.ptrs[pos] = new_id_]]

\* insert_in_leaf, were InsertStatus::DuplicatedKey mapped to Ok(None)
insert_in_leaf_accepts_duplicate(leaf, key, value) ==
  [leaf_insert(leaf, key, value) EXCEPT !.status = IF @ = "DuplicatedKey" THEN "Ok" ELSE @]

\* insert_in_leaf: the status of LeafNode::insert, Split carrying
\* (split_key, new_node)
insert_in_leaf(leaf, key, value) == leaf_insert(leaf, key, value)

\* InsertBacktrack<InLeaf>::on_next, after f(&mut last) returned r: the popped
\* frame is put in the shadow map, with add_shadow and the rename of the
\* parent frame when it is a fresh shadow
on_next_put(st, last, rest, r, rn) ==
  [status |-> IF rn.status = "panic" THEN "panic" ELSE r.status,
   st |-> IF rn.status = "panic" THEN st
          ELSE IF last.old_id # NoPage
            THEN add_shadow(st, last.old_id, [page_id |-> last.page.page_id, node |-> r.node])
            ELSE [st EXCEPT !.shadowed_pages = Put(@, last.page.page_id, r.node)],
   backtrack |-> rn.backtrack,
   new_root |-> IF rest = <<>> THEN last.page.page_id ELSE NoPage,
   sets |-> IF rest = <<>> THEN <<"on_next">> ELSE <<>>,
   leaf_id |-> last.page.page_id, mid |-> r.mid, new_node |-> r.new_node]

\* InsertBacktrack<InLeaf>::on_next, were rename_parent given the id of the
\* copy as the id to look for
on_next_leaf_renames_by_new_id(st, backtrack, key, value) ==
  on_next_put(st, Last(backtrack), Front(backtrack),
              insert_in_leaf(Last(backtrack).page.node, key, value),
              IF Last(backtrack).old_id # NoPage
                THEN rename_parent(Front(backtrack), Last(backtrack).page.page_id,
                                   Last(backtrack).page.page_id)
                ELSE [status |-> "Ok", backtrack |-> Front(backtrack)])

\* InsertBacktrack<InLeaf>::on_next applied to insert_in_leaf: pops the leaf
\* frame; new_root becomes its id when the stack is empty then
on_next_leaf(st, backtrack, key, value) ==
  on_next_put(st, Last(backtrack), Front(backtrack),
              insert_in_leaf(Last(backtrack).page.node, key, value),
              IF Last(backtrack).old_id # NoPage
                THEN rename_parent(Front(backtrack), Last(backtrack).old_id,
                                   Last(backtrack).page.page_id)
                ELSE [status |-> "Ok", backtrack |-> Front(backtrack)])

\* insert_in_internals: unimplemented!()
insert_in_internals(st, backtrack, key, to_insert) ==
  [status |-> "panic", st |-> st, backtrack |-> backtrack]

\* create_internal_node
create_internal_node(left_child, right_child, key) == insert_first(key, left_child, right_child)

\* InsertBacktrack::new_root: the node gets an id, which becomes new_root
backtrack_new_root(st, node) == add_new_node(st, node)

\* what insert hands to create_internal_node when the root splits: the split
\* key, the id of the leaf and the id of its new sibling; NoSplit otherwise
NoSplit == [mid |-> 0, left |-> NoPage, right |-> NoPage]

\* insert, were the new internal root given its id with add_new_node instead
\* of InsertBacktrack::new_root
insert_split_without_new_root(l, a) ==
  IF l.backtrack # <<>>
    THEN [status |-> insert_in_internals(a.st, l.backtrack, l.mid, a.id).status,
          st |-> a.st, new_root |-> l.new_root, sets |-> l.sets, split |-> NoSplit]
    ELSE [status |-> "Ok",
          st |-> add_new_node(a.st, create_internal_node(l.leaf_id, a.id, l.mid)).st,
          new_root |-> l.new_root,
          sets |-> l.sets,
          split |-> [mid |-> l.mid, left |-> l.leaf_id, right |-> a.id]]

\* insert, after the new leaf got its id (a): the split goes to the parent
\* frame when there is one, to a new root otherwise
insert_split(l, a) ==
  IF l.backtrack # <<>>
    THEN [status |-> insert_in_internals(a.st, l.backtrack, l.mid, a.id).status,
          st |-> a.st, new_root |-> l.new_root, sets |-> l.sets, split |-> NoSplit]
    ELSE [status |-> "Ok",
          st |-> backtrack_new_root(a.st, create_internal_node(l.leaf_id, a.id, l.mid)).st,
          new_root |-> backtrack_new_root(a.st, create_internal_node(l.leaf_id, a.id, l.mid)).id,
          sets |-> Append(l.sets, "new_root"),
          split |-> [mid |-> l.mid, left |-> l.leaf_id, right |-> a.id]]

\* insert, were the error of the leaf step dropped instead of returned
insert_after_leaf_drops_error(l) ==
  IF l.status # "Split"
    THEN [status |-> "Ok", st |-> l.st, new_root |-> l.new_root, sets |-> l.sets,
          split |-> NoSplit]
    ELSE insert_split(l, add_new_node(l.st, l.new_node))

\* insert, after the leaf step (l)
insert_after_leaf(l) ==
  IF l.status # "Split"
    THEN [status |-> l.status, st |-> l.st, new_root |-> l.new_root, sets |-> l.sets,
          split |-> NoSplit]
    ELSE insert_split(l, add_new_node(l.st, l.new_node))

\* insert, after the descent (s)
insert_after_search(s, key, value) ==
  IF s.status # "Ok"
    THEN [status |-> s.status, st |-> s.st, new_root |-> NoPage, sets |-> <<>>,
          split |-> NoSplit]
    ELSE insert_after_leaf(on_next_leaf(s.st, s.backtrack, key, value))

\* insert(tx, key, value): the result, the builder afterwards, and the
\* backtrack's new_root when it returns (the backtrack is dropped there;
\* the builder's current_root is not assigned), with the assignments to
\* new_root in the order they were made (sets) and the root split made
insert(pgs, st, key, value) ==
  insert_after_search(search_for(pgs, st, st.current_root, key, <<>>, MaxDepth), key, value)

\* --------------------------------------------------------------- blob file
\* a u64 position, kept as two limbs: hi * 2^LimbBits + lo
LimbBits == 20
Limb == 2 ^ LimbBits
U64(hi, lo) == [hi |-> hi, lo |-> lo]
u64_add(p, n) == [hi |-> p.hi + (p.lo + n) \div Limb, lo |-> (p.lo + n) % Limb]
u64_gt(a, b) == a.hi > b.hi \/ (a.hi = b.hi /\ a.lo > b.lo)

SZ_BITS == 24
POS_BITS == 40
\* MAX_POS_OFFSET = 2 << POS_BITS - 1: the subtraction binds tighter than
\* the shift, so this is 2 << 39
MAX_POS_OFFSET == U64(2 * 2 ^ ((POS_BITS - 1) - LimbBits), 0)

\* Appender::append / MmapedAppendOnlyFile::append of a blob of len bytes
\* with the next record at next_pos: the checks in the order of the code
\* (only the memory-mapped file refuses a length that is not a multiple of
\* 4), then the record of 4 + len bytes is written at next_pos
append_at(kind, len, next_pos) ==
  IF len > MAX_BLOB_SIZE
    THEN [status |-> "Err", next_pos |-> next_pos, written |-> 0]
  ELSE IF kind = "MmapedAppendOnlyFile" /\ len % 4 # 0
    THEN [status |-> "Err", next_pos |-> next_pos, written |-> 0]
  ELSE IF u64_gt(next_pos, MAX_POS_OFFSET)
    THEN [status |-> "Err", next_pos |-> next_pos, written |-> 0]
  ELSE [status |-> "Ok", next_pos |-> u64_add(next_pos, 4 + len), written |-> 4 + len]

le_bytes(n) == <<n % 256, (n \div 256) % 256, (n \div 65536) % 256, (n \div 16777216) % 256>>
read_u32(b) == b[1] + 256 * b[2] + 65536 * b[3] + 16777216 * b[4]

\* the mapped bytes from DATA_START on, after writing rec at position pos
\* (the storage is extended to include the region)
write_at(bytes, pos, rec) ==
  LET off == pos - DATA_START
  IN [i \in 1..Max(Len(bytes), off + Len(rec)) |->
        IF i > off /\ i <= off + Len(rec) THEN rec[i - off]
        ELSE IF i <= Len(bytes) THEN bytes[i] ELSE 0]

\* MmapedAppendOnlyFile::get_at: the length prefix, then that many bytes;
\* reading outside the mapped file panics
get_at(fl, pos) ==
  LET off == pos - DATA_START
      n == Len(fl.bytes)
      len == read_u32(SubSeq(fl.bytes, off + 1, off + 4))
  IN IF off < 0 \/ off + 4 > n THEN [status |-> "panic", blob |-> <<>>]
     ELSE IF off + 4 + len > n THEN [status |-> "panic", blob |-> <<>>]
     ELSE [status |-> "Some", blob |-> SubSeq(fl.bytes, off + 5, off + 4 + len)]

\* the checks at the head of MmapedAppendOnlyFile::append
append_accepts(buf) == ~(Len(buf) > MAX_BLOB_SIZE) /\ ~(Len(buf) % 4 # 0)

\* ------------------------------------------------------------------- state
VARIABLES
  pages,      \* the paged file: page id -> node written there
  latest,     \* TransactionManager.latest_version
  versions,   \* TransactionManager.versions, the queue of retired Versions
  pm,         \* TransactionManager.page_manager: [next_page, free_list]
  pmLock,     \* holder of the page_manager mutex
  verLock,    \* holder of the versions mutex
  poisoned,   \* a thread panicked while holding the two mutexes
  tx,         \* the open InsertTransactionBuilder
  cp,         \* the outstanding Checkpoint
  metadata,   \* the metadata file
  flat,       \* the blob file: [next_pos, bytes]
  pc,         \* writer thread -> its position
  op,         \* writer thread -> the facade call it is running
  res,        \* writer thread -> what its last facade call returned: the call,
              \* its result, and the inserts of the batch done before it returned
  readers,    \* reader thread -> the Version its ReadTx holds
  seen,       \* reader thread -> the lookups as of the creation of its ReadTx, and
              \* what held the writer locks then
  nextVid,    \* identity of the next Arc<Version> allocated
  budget,     \* blobs that may still be handed to the facade
  committed   \* <<key, blob>> of the transactions that committed

vars == <<pages, latest, versions, pm, pmLock, verLock, poisoned, tx, cp, metadata,
          flat, pc, op, res, readers, seen, nextVid, budget, committed>>

\* the units exercised on their own
VARIABLES
  testNode,         \* a node under LeafNode::insert / InternalNode::insert
  testRes,          \* what the last insert into testNode returned, and its arguments
  borrows,          \* Pages.borrows: page id -> kind of the guard of its entry
  guards,           \* page id -> the live handles of each kind
  borrowsPoisoned,  \* a thread panicked holding the borrows mutex
  mapped,           \* the pages the storage of Pages is extended to
  call,             \* the last call on Pages, what it found and returned
  appender          \* a blob file on its own: which append it has, the position of
                    \* the next record, and what the last append was given and did

unitVars == <<testNode, testRes, borrows, guards, borrowsPoisoned, mapped, call, appender>>
allVars == <<vars, unitVars>>

PageIds == 0..MaxPageId
NoAppend == [len |-> 0, pos |-> U64(0, 0), status |-> "none", written |-> 0]
NoAppender == [kind |-> "none", next_pos |-> U64(0, 0), calls |-> 0, last |-> NoAppend]
NoInsert == [status |-> "none", mid |-> 0, new_node |-> new_leaf, key |-> 0, value |-> 0,
             before |-> new_leaf]
NoCall == [fn |-> "none", id |-> 0, entry |-> "None", before |-> NoGuards, result |-> "none"]

\* Node::new_leaf on a fresh buffer; Pages::new
UnitsNew ==
  /\ testNode = new_leaf
  /\ testRes = NoInsert
  /\ borrows = [id \in PageIds |-> "None"]
  /\ guards = [id \in PageIds |-> NoGuards]
  /\ borrowsPoisoned = FALSE
  /\ mapped = 0
  /\ call = NoCall
  /\ appender = NoAppender

NoVersion == [vid |-> -1, root |-> NoPage,
              transaction |-> [new_root |-> NoPage, shadowed_pages |-> <<>>, next_page_id |-> 0]]
\* the InsertBacktrack of the last insert(tx, key, value) that returned Ok(())
\* in the open transaction, as it was when it was dropped
NoBacktrack == [key |-> 0, new_root |-> NoPage, sets |-> <<>>, split |-> NoSplit]
NoTx == [open |-> FALSE, current_root |-> NoPage, shadowed_pages |-> EmptyMap, old_ids |-> <<>>,
         last |-> NoBacktrack]
NoCheckpoint == [held |-> FALSE,
                 new_metadata |-> [root |-> NoPage,
                                   page_manager |-> [next_page |-> 0, free_list |-> <<>>]]]
NoOp == [kind |-> "none", batch |-> <<>>, np |-> 0, offsets |-> <<>>, todo |-> <<>>,
         result |-> "none"]
NoRes == [kind |-> "none", status |-> "none", done |-> 0]
\* what the facade call op returns with status
Returned(o, status) == [kind |-> o.kind, status |-> status, done |-> Len(o.batch) - Len(o.todo)]
NoSeen == [during |-> "none", lookups |-> [k \in Keys |-> [status |-> "None", value |-> 0]]]

\* BTree::new: an empty leaf as the root page
InitialMetadata == [root |-> FirstPage,
                    page_manager |-> [next_page |-> FirstPage + 1, free_list |-> <<>>]]

\* TransactionManager::new
TransactionManager_new(md, vid) ==
  [vid |-> vid, root |-> md.root,
   transaction |-> [new_root |-> md.root, shadowed_pages |-> <<>>,
                    next_page_id |-> md.page_manager.next_page]]

InitWith(n) ==
  /\ pages = Put(EmptyMap, FirstPage, new_leaf)
  /\ metadata = InitialMetadata
  /\ latest = TransactionManager_new(InitialMetadata, 0)
  /\ versions = <<>>
  /\ pm = InitialMetadata.page_manager
  /\ pmLock = NoThread
  /\ verLock = NoThread
  /\ poisoned = FALSE
  /\ tx = NoTx
  /\ cp = NoCheckpoint
  /\ flat = [next_pos |-> DATA_START, bytes |-> <<>>]
  /\ pc = [w \in Writers |-> "idle"]
  /\ op = [w \in Writers |-> NoOp]
  /\ res = [w \in Writers |-> NoRes]
  /\ readers = [r \in Readers |-> NoVersion]
  /\ seen = [r \in Readers |-> NoSeen]
  /\ nextVid = 1
  /\ budget = n
  /\ committed = {}
  /\ UnitsNew

\* Arc::strong_count of a queued Version: the queue's reference and one per
\* ReadTx holding it
strong_count(v) == 1 + Cardinality({r \in Readers : readers[r].vid = v.vid})

\* BTreeStore::get
get(key) ==
  LET l == lookup(pages, latest.root, key)
  IN IF l.status = "Some" THEN get_at(flat, l.value) ELSE [status |-> l.status, blob |-> <<>>]

\* ----------------------------------------------------------------- actions
Batches(B) == UNION {[1..n -> Keys \X B] : n \in 1..MaxBatch}

builder(w) == [current_root |-> tx.current_root, shadowed_pages |-> tx.shadowed_pages,
               old_ids |-> tx.old_ids, pm |-> pm]

\* BTreeStore::insert is called with (key, blob)
BeginInsert(w, k, b) ==
  /\ pc[w] = "idle"
  /\ budget >= 1
  /\ budget' = budget - 1
  /\ op' = [op EXCEPT ![w] = [NoOp EXCEPT !.kind = "insert", !.batch = <<<<k, b>>>>]]
  /\ pc' = [pc EXCEPT ![w] = "append_load"]
  /\ res' = [res EXCEPT ![w] = NoRes]
  /\ UNCHANGED <<pages, latest, versions, pm, pmLock, verLock, poisoned, tx, cp, metadata,
                 flat, readers, seen, nextVid, committed>>
  /\ UNCHANGED unitVars

\* BTreeStore::insert_many is called with a batch
BeginInsertMany(w, batch) ==
  /\ pc[w] = "idle"
  /\ budget >= Len(batch)
  /\ budget' = budget - Len(batch)
  /\ op' = [op EXCEPT ![w] = [NoOp EXCEPT !.kind = "insert_many", !.batch = batch]]
  /\ pc' = [pc EXCEPT ![w] = "append_load"]
  /\ res' = [res EXCEPT ![w] = NoRes]
  /\ UNCHANGED <<pages, latest, versions, pm, pmLock, verLock, poisoned, tx, cp, metadata,
                 flat, readers, seen, nextVid, committed>>
  /\ UNCHANGED unitVars

\* MmapedAppendOnlyFile::append, up to the load of next_pos: a rejected blob
\* makes the facade call return the error
AppendLoad(w) ==
  /\ pc[w] = "append_load"
  /\ LET buf == op[w].batch[Len(op[w].offsets) + 1][2]
     IN IF append_accepts(buf)
          THEN /\ op' = [op EXCEPT ![w].np = flat.next_pos]
               /\ pc' = [pc EXCEPT ![w] = "append_write"]
               /\ res' = res
          ELSE /\ op' = [op EXCEPT ![w] = NoOp]
               /\ pc' = [pc EXCEPT ![w] = "idle"]
               /\ res' = [res EXCEPT ![w] = Returned(op[w], "IOError")]
  /\ UNCHANGED <<pages, latest, versions, pm, pmLock, verLock, poisoned, tx, cp, metadata,
                 flat, readers, seen, nextVid, budget, committed>>
  /\ UNCHANGED unitVars

\* MmapedAppendOnlyFile::append, from the upgradable lock on: the record is
\* written at the position loaded before and next_pos is stored
AppendWrite(w) ==
  /\ pc[w] = "append_write"
  /\ LET item == op[w].batch[Len(op[w].offsets) + 1]
         buf == item[2]
         region == le_bytes(Len(buf)) \o buf
         offs == Append(op[w].offsets, <<item[1], op[w].np>>)
     IN /\ flat' = [next_pos |-> op[w].np + Len(region),
                    bytes |-> write_at(flat.bytes, op[w].np, region)]
        /\ op' = [op EXCEPT ![w].offsets = offs, ![w].todo = offs]
        /\ pc' = [pc EXCEPT ![w] = IF Len(offs) < Len(op[w].batch)
                                     THEN "append_load" ELSE "lock_pm"]
  /\ UNCHANGED <<pages, latest, versions, pm, pmLock, verLock, poisoned, tx, cp, metadata,
                 res, readers, seen, nextVid, budget, committed>>
  /\ UNCHANGED unitVars

\* insert_transaction, were page_manager taken without waiting for its holder
InsertLockPageManager_without_wait(w) ==
  /\ pc[w] = "lock_pm"
  /\ IF poisoned
       THEN /\ pc' = [pc EXCEPT ![w] = "idle"]
            /\ res' = [res EXCEPT ![w] = Returned(op[w], "panic")]
            /\ op' = [op EXCEPT ![w] = NoOp]
            /\ pmLock' = pmLock
       ELSE /\ pc' = [pc EXCEPT ![w] = "lock_ver"]
            /\ pmLock' = w
            /\ UNCHANGED <<res, op>>
  /\ UNCHANGED <<pages, latest, versions, pm, verLock, poisoned, tx, cp, metadata,
                 flat, readers, seen, nextVid, budget, committed>>
  /\ UNCHANGED unitVars

\* TransactionManager::insert_transaction: page_manager.lock().unwrap()
InsertLockPageManager(w) ==
  /\ pc[w] = "lock_pm"
  /\ poisoned \/ pmLock = NoThread
  /\ IF poisoned
       THEN /\ pc' = [pc EXCEPT ![w] = "idle"]
            /\ res' = [res EXCEPT ![w] = Returned(op[w], "panic")]
            /\ op' = [op EXCEPT ![w] = NoOp]
            /\ pmLock' = pmLock
       ELSE /\ pc' = [pc EXCEPT ![w] = "lock_ver"]
            /\ pmLock' = w
            /\ UNCHANGED <<res, op>>
  /\ UNCHANGED <<pages, latest, versions, pm, verLock, poisoned, tx, cp, metadata,
                 flat, readers, seen, nextVid, budget, committed>>
  /\ UNCHANGED unitVars

\* TransactionManager::insert_transaction: versions.lock().unwrap() and the
\* builder, whose current_root is the latest root
insert_transaction(w) ==
  /\ pc[w] = "lock_ver"
  /\ verLock = NoThread
  /\ verLock' = w
  /\ tx' = [open |-> TRUE, current_root |-> latest.root,
            shadowed_pages |-> EmptyMap, old_ids |-> <<>>, last |-> NoBacktrack]
  /\ pc' = [pc EXCEPT ![w] = "tx"]
  /\ UNCHANGED <<pages, latest, versions, pm, pmLock, poisoned, cp, metadata,
                 flat, op, res, readers, seen, nextVid, budget, committed>>
  /\ UNCHANGED unitVars

\* BTree::insert_one / insert_many after one insert(tx, key, value) returned
\* r. An error drops the builder (both guards are released); a panic poisons
\* the mutexes; BTreeStore::insert goes on to the checkpoint, insert_many
\* returns the error
TxInsertResult(w, r) ==
  /\ pm' = r.st.pm
  /\ IF r.status = "Ok"
       THEN /\ tx' = [open |-> TRUE, current_root |-> r.st.current_root,
                      shadowed_pages |-> r.st.shadowed_pages,
                      old_ids |-> r.st.old_ids,
                      last |-> [key |-> Head(op[w].todo)[1], new_root |-> r.new_root,
                                sets |-> r.sets, split |-> r.split]]
            /\ op' = [op EXCEPT ![w].todo = Tail(@)]
            /\ UNCHANGED <<pc, res, pmLock, verLock, poisoned>>
     ELSE IF r.status = "hang"
       THEN /\ pc' = [pc EXCEPT ![w] = "hung"]
            /\ UNCHANGED <<tx, op, res, pmLock, verLock, poisoned>>
     ELSE /\ tx' = NoTx
          /\ pmLock' = NoThread
          /\ verLock' = NoThread
          /\ poisoned' = (poisoned \/ r.status = "panic")
          /\ IF r.status = "DuplicatedKey" /\ op[w].kind = "insert"
               THEN /\ op' = [op EXCEPT ![w].result = r.status]
                    /\ pc' = [pc EXCEPT ![w] = "cp_pm"]
                    /\ res' = res
               ELSE /\ op' = [op EXCEPT ![w] = NoOp]
                    /\ pc' = [pc EXCEPT ![w] = "idle"]
                    /\ res' = [res EXCEPT ![w] = Returned(op[w], r.status)]

\* BTree::insert_one / insert_many: the next insert(tx, key, value) of the batch
TxInsert(w) ==
  /\ pc[w] = "tx"
  /\ op[w].todo # <<>>
  /\ TxInsertResult(w, insert(pages, builder(w), Head(op[w].todo)[1], Head(op[w].todo)[2]))
  /\ UNCHANGED <<pages, latest, versions, cp, metadata, flat, readers, seen, nextVid,
                 budget, committed>>
  /\ UNCHANGED unitVars

\* InsertTransactionBuilder::commit, were the pages of the shadow map not
\* written before the Version is made
CommitWritePages_without_write_page(w) ==
  /\ pc[w] = "tx"
  /\ op[w].todo = <<>>
  /\ pages' = pages
  /\ pc' = [pc EXCEPT ![w] = "publish"]
  /\ UNCHANGED <<latest, versions, pm, pmLock, verLock, poisoned, tx, cp, metadata,
                 flat, op, res, readers, seen, nextVid, budget, committed>>
  /\ UNCHANGED unitVars

\* InsertTransactionBuilder::commit: every page of the shadow map is written
CommitWritePages(w) ==
  /\ pc[w] = "tx"
  /\ op[w].todo = <<>>
  /\ pages' = [id \in (DOMAIN pages) \cup (DOMAIN tx.shadowed_pages) |->
                 IF id \in DOMAIN tx.shadowed_pages THEN tx.shadowed_pages[id] ELSE pages[id]]
  /\ pc' = [pc EXCEPT ![w] = "publish"]
  /\ UNCHANGED <<latest, versions, pm, pmLock, verLock, poisoned, tx, cp, metadata,
                 flat, op, res, readers, seen, nextVid, budget, committed>>
  /\ UNCHANGED unitVars

\* InsertTransactionBuilder::commit, were the new Version stored as latest
\* without the push of the previous one
CommitPublish_without_push(w) ==
  /\ pc[w] = "publish"
  /\ versions' = versions
  /\ latest' = [vid |-> nextVid, root |-> tx.current_root,
                transaction |-> [new_root |-> tx.current_root,
                                 shadowed_pages |-> tx.old_ids,
                                 next_page_id |-> pm.next_page]]
  /\ nextVid' = nextVid + 1
  /\ tx' = NoTx
  /\ pmLock' = NoThread
  /\ verLock' = NoThread
  /\ committed' = committed \cup Range(op[w].batch)
  /\ op' = [op EXCEPT ![w].result = "Ok"]
  /\ pc' = [pc EXCEPT ![w] = "cp_pm"]
  /\ UNCHANGED <<pages, pm, poisoned, cp, metadata, flat, res, readers, seen, budget>>
  /\ UNCHANGED unitVars

\* InsertTransactionBuilder::commit: the previous latest goes to the back of
\* the queue, the new Version becomes latest, the guards are dropped
CommitPublish(w) ==
  /\ pc[w] = "publish"
  /\ versions' = Append(versions, latest)
  /\ latest' = [vid |-> nextVid, root |-> tx.current_root,
                transaction |-> [new_root |-> tx.current_root,
                                 shadowed_pages |-> tx.old_ids,
                                 next_page_id |-> pm.next_page]]
  /\ nextVid' = nextVid + 1
  /\ tx' = NoTx
  /\ pmLock' = NoThread
  /\ verLock' = NoThread
  /\ committed' = committed \cup Range(op[w].batch)
  /\ op' = [op EXCEPT ![w].result = "Ok"]
  /\ pc' = [pc EXCEPT ![w] = "cp_pm"]
  /\ UNCHANGED <<pages, pm, poisoned, cp, metadata, flat, res, readers, seen, budget>>
  /\ UNCHANGED unitVars

\* TransactionManager::collect_pending: page_manager.lock().unwrap()
CollectLockPageManager(w) ==
  /\ pc[w] = "cp_pm"
  /\ poisoned \/ pmLock = NoThread
  /\ IF poisoned
       THEN /\ pc' = [pc EXCEPT ![w] = "idle"]
            /\ res' = [res EXCEPT ![w] = Returned(op[w], "panic")]
            /\ op' = [op EXCEPT ![w] = NoOp]
            /\ pmLock' = pmLock
       ELSE /\ pc' = [pc EXCEPT ![w] = "cp_ver"]
            /\ pmLock' = w
            /\ UNCHANGED <<res, op>>
  /\ UNCHANGED <<pages, latest, versions, pm, verLock, poisoned, tx, cp, metadata,
                 flat, readers, seen, nextVid, budget, committed>>
  /\ UNCHANGED unitVars

\* the loop of collect_pending, were it left after the first Version popped
pop_count_at_most_one(q) ==
  IF q # <<>> /\ strong_count(q[1]) = 1 THEN 1 ELSE 0

\* the number of Versions the loop of collect_pending pops: the longest
\* prefix of the queue whose Versions have strong_count 1
pop_count(q) ==
  LET ok == {n \in 0..Len(q) : \A j \in 1..n : strong_count(q[j]) = 1}
  IN CHOOSE n \in ok : \A m \in ok : m <= n

\* pages_to_release: the shadowed_pages of the popped Versions, in order
RECURSIVE pages_to_release(_)
pages_to_release(popped) ==
  IF popped = <<>> THEN <<>>
  ELSE Head(popped).transaction.shadowed_pages \o pages_to_release(Tail(popped))

RECURSIVE release_all(_, _)
release_all(mgr, ids) ==
  IF ids = <<>> THEN mgr ELSE release_all(remove_page(mgr, Head(ids)), Tail(ids))

\* collect_pending, were the guard of page_manager kept when it returns None
collect_pending_none_keeps_guard(w) ==
  /\ pc[w] = "cp_ver"
  /\ verLock = NoThread
  /\ LET n == pop_count(versions)
         popped == SubSeq(versions, 1, n)
         mgr == release_all(pm, pages_to_release(popped))
     IN IF n = 0
          THEN /\ pmLock' = pmLock
               /\ verLock' = NoThread
               /\ pc' = [pc EXCEPT ![w] = "idle"]
               /\ res' = [res EXCEPT ![w] = Returned(op[w], op[w].result)]
               /\ op' = [op EXCEPT ![w] = NoOp]
               /\ UNCHANGED <<versions, pm, cp>>
          ELSE /\ verLock' = w
               /\ pmLock' = pmLock
               /\ versions' = SubSeq(versions, n + 1, Len(versions))
               /\ pm' = mgr
               /\ cp' = [held |-> TRUE,
                         new_metadata |->
                           [root |-> popped[n].transaction.new_root,
                            page_manager |->
                              [next_page |-> popped[n].transaction.next_page_id,
                               free_list |-> mgr.free_list]]]
               /\ pc' = [pc EXCEPT ![w] = "cp"]
               /\ UNCHANGED <<res, op>>
  /\ UNCHANGED <<pages, latest, poisoned, tx, metadata, flat, readers, seen, nextVid,
                 budget, committed>>
  /\ UNCHANGED unitVars

\* collect_pending, were the page manager written to the metadata as it is,
\* with its own next_page
collect_pending_with_current_next_page(w) ==
  /\ pc[w] = "cp_ver"
  /\ verLock = NoThread
  /\ LET n == pop_count(versions)
         popped == SubSeq(versions, 1, n)
         mgr == release_all(pm, pages_to_release(popped))
     IN IF n = 0
          THEN /\ pmLock' = NoThread
               /\ verLock' = NoThread
               /\ pc' = [pc EXCEPT ![w] = "idle"]
               /\ res' = [res EXCEPT ![w] = Returned(op[w], op[w].result)]
               /\ op' = [op EXCEPT ![w] = NoOp]
               /\ UNCHANGED <<versions, pm, cp>>
          ELSE /\ verLock' = w
               /\ pmLock' = pmLock
               /\ versions' = SubSeq(versions, n + 1, Len(versions))
               /\ pm' = mgr
               /\ cp' = [held |-> TRUE,
                         new_metadata |->
                           [root |-> popped[n].transaction.new_root,
                            page_manager |->
                              [next_page |-> pm.next_page,
                               free_list |-> mgr.free_list]]]
               /\ pc' = [pc EXCEPT ![w] = "cp"]
               /\ UNCHANGED <<res, op>>
  /\ UNCHANGED <<pages, latest, poisoned, tx, metadata, flat, readers, seen, nextVid,
                 budget, committed>>
  /\ UNCHANGED unitVars

\* TransactionManager::collect_pending after versions.lock(): None releases
\* both guards (the facade call returns); Some(Checkpoint) keeps them
collect_pending(w) ==
  /\ pc[w] = "cp_ver"
  /\ verLock = NoThread
  /\ LET n == pop_count(versions)
         popped == SubSeq(versions, 1, n)
         mgr == release_all(pm, pages_to_release(popped))
     IN IF n = 0
          THEN /\ pmLock' = NoThread
               /\ verLock' = NoThread
               /\ pc' = [pc EXCEPT ![w] = "idle"]
               /\ res' = [res EXCEPT ![w] = Returned(op[w], op[w].result)]
               /\ op' = [op EXCEPT ![w] = NoOp]
               /\ UNCHANGED <<versions, pm, cp>>
          ELSE /\ verLock' = w
               /\ pmLock' = pmLock
               /\ versions' = SubSeq(versions, n + 1, Len(versions))
               /\ pm' = mgr
               /\ cp' = [held |-> TRUE,
                         new_metadata |->
                           [root |-> popped[n].transaction.new_root,
                            page_manager |->
                              [next_page |-> popped[n].transaction.next_page_id,
                               free_list |-> mgr.free_list]]]
               /\ pc' = [pc EXCEPT ![w] = "cp"]
               /\ UNCHANGED <<res, op>>
  /\ UNCHANGED <<pages, latest, poisoned, tx, metadata, flat, readers, seen, nextVid,
                 budget, committed>>
  /\ UNCHANGED unitVars

\* BTree::checkpoint with Some(Checkpoint): the metadata file is rewritten and
\* the Checkpoint is dropped
CheckpointFinish(w) ==
  /\ pc[w] = "cp"
  /\ metadata' = cp.new_metadata
  /\ cp' = NoCheckpoint
  /\ pmLock' = NoThread
  /\ verLock' = NoThread
  /\ pc' = [pc EXCEPT ![w] = "idle"]
  /\ res' = [res EXCEPT ![w] = Returned(op[w], op[w].result)]
  /\ op' = [op EXCEPT ![w] = NoOp]
  /\ UNCHANGED <<pages, latest, versions, pm, poisoned, tx, flat, readers, seen, nextVid,
                 budget, committed>>
  /\ UNCHANGED unitVars

\* every lookup through a root, as a function of the key
lookups(pgs, root) == [k \in Keys |-> lookup(pgs, root, k)]

\* read_transaction, were latest_version read under the versions mutex
read_transaction_under_versions_lock(r) ==
  /\ verLock = NoThread
  /\ readers[r].vid = NoVersion.vid
  /\ readers' = [readers EXCEPT ![r] = latest]
  /\ seen' = [seen EXCEPT ![r] = [during |-> IF tx.open THEN "tx"
                                                 ELSE IF cp.held THEN "checkpoint" ELSE "none",
                                     lookups |-> lookups(pages, latest.root)]]
  /\ UNCHANGED <<pages, latest, versions, pm, pmLock, verLock, poisoned, tx, cp, metadata,
                 flat, pc, op, res, nextVid, budget, committed>>
  /\ UNCHANGED unitVars

\* TransactionManager::read_transaction
read_transaction(r) ==
  /\ readers[r].vid = NoVersion.vid
  /\ readers' = [readers EXCEPT ![r] = latest]
  /\ seen' = [seen EXCEPT ![r] = [during |-> IF tx.open THEN "tx"
                                                 ELSE IF cp.held THEN "checkpoint" ELSE "none",
                                     lookups |-> lookups(pages, latest.root)]]
  /\ UNCHANGED <<pages, latest, versions, pm, pmLock, verLock, poisoned, tx, cp, metadata,
                 flat, pc, op, res, nextVid, budget, committed>>
  /\ UNCHANGED unitVars

\* the ReadTx is dropped
ReadDrop(r) ==
  /\ readers[r].vid # NoVersion.vid
  /\ readers' = [readers EXCEPT ![r] = NoVersion]
  /\ seen' = [seen EXCEPT ![r] = NoSeen]
  /\ UNCHANGED <<pages, latest, versions, pm, pmLock, verLock, poisoned, tx, cp, metadata,
                 flat, pc, op, res, nextVid, budget, committed>>
  /\ UNCHANGED unitVars

\* BTreeStore::open on the files of a store nobody uses any more
Reopen ==
  /\ \A w \in Writers : pc[w] = "idle"
  /\ \A r \in Readers : readers[r].vid = NoVersion.vid
  /\ latest' = TransactionManager_new(metadata, 0)
  /\ versions' = <<>>
  /\ pm' = metadata.page_manager
  /\ poisoned' = FALSE
  /\ nextVid' = 1
  /\ flat' = [flat EXCEPT !.next_pos = DATA_START + Len(flat.bytes)]
  /\ res' = [w \in Writers |-> NoRes]
  /\ UNCHANGED <<pages, pmLock, verLock, tx, cp, metadata, pc, op, readers, seen, budget,
                 committed>>
  /\ UNCHANGED unitVars

\* the steps of the writer threads W called with blobs of B
WriterStep(W, B) ==
  \/ \E w \in W, k \in Keys, b \in B : BeginInsert(w, k, b)
  \/ \E w \in W, batch \in Batches(B) : BeginInsertMany(w, batch)
  \/ \E w \in W : AppendLoad(w)
  \/ \E w \in W : AppendWrite(w)
  \/ \E w \in W : InsertLockPageManager(w)
  \/ \E w \in W : insert_transaction(w)
  \/ \E w \in W : TxInsert(w)
  \/ \E w \in W : CommitWritePages(w)
  \/ \E w \in W : CommitPublish(w)
  \/ \E w \in W : CollectLockPageManager(w)
  \/ \E w \in W : collect_pending(w)
  \/ \E w \in W : CheckpointFinish(w)
  \/ Reopen

ReaderStep ==
  \/ \E r \in Readers : read_transaction(r)
  \/ \E r \in Readers : ReadDrop(r)

\* two writer threads and a reader
Init == InitWith(MaxAppends)
Next == WriterStep(Writers, Blobs) \/ ReaderStep
Spec == Init /\ [][Next]_vars

\* one thread calling the facade, more calls
InitSeq == InitWith(MaxAppendsSeq)
NextSeq == WriterStep({"w1"}, Blobs)
SpecSeq == InitSeq /\ [][NextSeq]_vars

\* one thread calling the facade with keys enough to fill a leaf and split it
TreeKeys == 1..MaxKeyTree
TreeBlob == <<7, 7, 7, 7>>
TreeBatches == UNION {[1..n -> TreeKeys \X {TreeBlob}] : n \in 1..MaxBatch}
InitTree == InitWith(MaxAppendsTree)
NextTree ==
  \/ \E k \in TreeKeys : BeginInsert("w1", k, TreeBlob)
  \/ \E batch \in TreeBatches : BeginInsertMany("w1", batch)
  \/ AppendLoad("w1")
  \/ AppendWrite("w1")
  \/ InsertLockPageManager("w1")
  \/ insert_transaction("w1")
  \/ TxInsert("w1")
  \/ CommitWritePages("w1")
  \/ CommitPublish("w1")
  \/ CollectLockPageManager("w1")
  \/ collect_pending("w1")
  \/ CheckpointFinish("w1")
SpecTree == InitTree /\ [][NextTree]_vars

\* one thread calling insert_many with batches of two keys: the calls that
\* build an internal root inside a transaction and descend through it
PairBatches == [1..2 -> TreeKeys \X {TreeBlob}]
InitBatch == InitWith(MaxAppendsBatch)
NextBatch ==
  \/ \E batch \in PairBatches : BeginInsertMany("w1", batch)
  \/ AppendLoad("w1")
  \/ AppendWrite("w1")
  \/ InsertLockPageManager("w1")
  \/ insert_transaction("w1")
  \/ TxInsert("w1")
  \/ CommitWritePages("w1")
  \/ CommitPublish("w1")
  \/ CollectLockPageManager("w1")
  \/ collect_pending("w1")
  \/ CheckpointFinish("w1")
SpecBatch == InitBatch /\ [][NextBatch]_vars

\* the threads under a fair scheduler: a writer thread that can take its
\* next step (a lock it waits for is free) eventually takes it; the calls of
\* the facade and the reader are free to come or not
Proceed(w) ==
  \/ AppendLoad(w)
  \/ AppendWrite(w)
  \/ InsertLockPageManager(w)
  \/ insert_transaction(w)
  \/ CommitWritePages(w)
  \/ CommitPublish(w)
  \/ CollectLockPageManager(w)
  \/ collect_pending(w)
  \/ CheckpointFinish(w)
\* TxInsert(w) is enabled exactly when w is in its transaction with an insert
\* left to do, and it then moves w on
TxInsertEnabled(w) == pc[w] = "tx" /\ op[w].todo # <<>>
TxInserted(w) == TxInsertEnabled(w) /\ (pc'[w] # pc[w] \/ op'[w] # op[w])
\* weak fairness of each thread's steps, that of TxInsert(w) written out
Fair(w) ==
  /\ WF_vars(Proceed(w))
  /\ ([]<>~TxInsertEnabled(w)) \/ ([]<><<TxInserted(w)>>_vars)
InitLive == InitWith(MaxAppendsLive)
NextLive ==
  \/ \E w \in Writers : BeginInsert(w, 1, TreeBlob)
  \/ \E w \in Writers : Proceed(w)
  \/ \E w \in Writers : TxInsert(w)
  \/ ReaderStep
SpecLive == InitLive /\ [][NextLive]_vars /\ \A w \in Writers : Fair(w)

\* ------------------------------------------------------- the node on its own
NodeKeys == 1..MaxNodeKey
NodeValues == 1..MaxNodeKey
\* what an insert into testNode returned
InsertResult(r, key, value) ==
  [status |-> r.status, mid |-> r.mid, new_node |-> r.new_node, key |-> key, value |-> value,
   before |-> testNode]

\* LeafNode::insert(key, value) on the leaf, until it splits
LeafInsert(key, value) ==
  /\ testNode.leaf
  /\ testRes.status # "Split"
  /\ testNode' = leaf_insert(testNode, key, value).node
  /\ testRes' = InsertResult(leaf_insert(testNode, key, value), key, value)
  /\ UNCHANGED <<vars, appender, borrows, guards, borrowsPoisoned, mapped, call>>

\* Node::new_internal on the fresh buffer, then InternalNode::insert_first
InternalInsertFirst(key, child) ==
  /\ testNode = new_leaf
  /\ testRes = NoInsert
  /\ testNode' = insert_first(key, NoPage, child)
  /\ testRes' = [NoInsert EXCEPT !.status = "Ok", !.key = key, !.value = child,
                                 !.new_node = InternalNode(<<>>, <<>>),
                                 !.before = InternalNode(<<>>, <<>>)]
  /\ UNCHANGED <<vars, appender, borrows, guards, borrowsPoisoned, mapped, call>>

\* InternalNode::insert(key, child) of a key the node does not hold, until it
\* splits
InternalInsert(key, child) ==
  /\ ~testNode.leaf
  /\ testRes.status # "Split"
  /\ key \notin Range(testNode.keys)
  /\ testNode' = internal_insert(testNode, key, child).node
  /\ testRes' = InsertResult(internal_insert(testNode, key, child), key, child)
  /\ UNCHANGED <<vars, appender, borrows, guards, borrowsPoisoned, mapped, call>>

InitNode == InitWith(0)
NextNode ==
  \/ \E key \in NodeKeys, value \in NodeValues : LeafInsert(key, value)
  \/ \E key \in NodeKeys, child \in NodeValues : InternalInsertFirst(key, child)
  \/ \E key \in NodeKeys, child \in NodeValues : InternalInsert(key, child)
SpecNode == InitNode /\ [][NextNode]_allVars

\* the descent step of search_for at the internal nodes InternalNode::insert
\* builds
DescentKeys == 0..(MaxNodeKey + 1)
Descend(key) ==
  /\ ~testNode.leaf
  /\ testNode' = testNode
  /\ testRes' = [NoInsert EXCEPT !.status = "Descent", !.key = key,
                                 !.value = child_for(testNode, key),
                                 !.before = testNode]
  /\ UNCHANGED <<vars, appender, borrows, guards, borrowsPoisoned, mapped, call>>

InitDescent == InitWith(0)
NextDescent ==
  \/ NextNode
  \/ \E key \in DescentKeys : Descend(key)
SpecDescent == InitDescent /\ [][NextDescent]_allVars

\* ------------------------------------------------ the paged store on its own
BorrowCheckerNow == [borrows |-> borrows, guards |-> guards]

\* Pages::get_page, were the handle built without reading the storage
Pages_get_page_without_storage(bc, n, id) ==
  IF borrow(bc, id).status = "panic"
    THEN [result |-> "panic", bc |-> bc, poison |-> TRUE]
  ELSE IF id = NoPage
    THEN [result |-> "panic", bc |-> [borrow(bc, id).bc EXCEPT !.guards = bc.guards],
          poison |-> FALSE]
  ELSE [result |-> "Some", bc |-> borrow(bc, id).bc, poison |-> FALSE]

\* Pages::get_page after the borrows mutex was locked: a panic of borrow
\* poisons the mutex; a panic after the let drops the guard just taken
Pages_get_page(bc, n, id) ==
  IF borrow(bc, id).status = "panic"
    THEN [result |-> "panic", bc |-> bc, poison |-> TRUE]
  ELSE IF id = NoPage \/ storage_get(n, id) = "panic"
    THEN [result |-> "panic", bc |-> [borrow(bc, id).bc EXCEPT !.guards = bc.guards],
          poison |-> FALSE]
  ELSE [result |-> "Some", bc |-> borrow(bc, id).bc, poison |-> FALSE]

\* Pages::mut_page after the borrows mutex was locked: Err(()) drops the guard
Pages_mut_page(bc, n, id) ==
  IF borrow_mut(bc, id).status = "panic"
    THEN [result |-> "panic", bc |-> bc, poison |-> TRUE]
  ELSE IF id = NoPage
    THEN [result |-> "panic", bc |-> [borrow_mut(bc, id).bc EXCEPT !.guards = bc.guards],
          poison |-> FALSE]
  ELSE IF storage_get_mut(n, id) = "Err"
    THEN [result |-> "Err", bc |-> [borrow_mut(bc, id).bc EXCEPT !.guards = bc.guards],
          poison |-> FALSE]
  ELSE [result |-> "Ok", bc |-> borrow_mut(bc, id).bc, poison |-> FALSE]

\* Pages::make_shadow(old_id, new_id), old_id # new_id, after get_page(old_id)
\* returned g: both handles are dropped when it returns or unwinds
Pages_make_shadow(bc, n, g, new_id_) ==
  IF g.result = "panic" THEN g
  ELSE [result |-> IF Pages_mut_page(g.bc, n, new_id_).result = "Ok" THEN "Ok"
                   ELSE Pages_mut_page(g.bc, n, new_id_).result,
        bc |-> [Pages_mut_page(g.bc, n, new_id_).bc EXCEPT !.guards = bc.guards],
        poison |-> Pages_mut_page(g.bc, n, new_id_).poison]

\* a call on Pages that locks the borrows mutex returns r; on a poisoned
\* mutex lock().unwrap() panics
PagesCall(fn, id, r) ==
  /\ IF borrowsPoisoned
       THEN /\ call' = [fn |-> fn, id |-> id, entry |-> borrows[id], before |-> guards[id],
                         result |-> "panic"]
            /\ UNCHANGED <<borrows, guards, borrowsPoisoned>>
       ELSE /\ call' = [fn |-> fn, id |-> id, entry |-> borrows[id], before |-> guards[id],
                         result |-> r.result]
            /\ borrows' = r.bc.borrows
            /\ guards' = r.bc.guards
            /\ borrowsPoisoned' = r.poison
  /\ UNCHANGED <<vars, appender, testNode, testRes, mapped>>

GetPage(id) ==
  /\ guards[id].Shared < MaxGuards
  /\ PagesCall("get_page", id, Pages_get_page(BorrowCheckerNow, mapped, id))

MutPage(id) ==
  /\ guards[id].Exclusive < MaxGuards
  /\ PagesCall("mut_page", id, Pages_mut_page(BorrowCheckerNow, mapped, id))

MakeShadow(old_id, new_id_) ==
  /\ old_id # new_id_
  /\ PagesCall("make_shadow", new_id_,
               Pages_make_shadow(BorrowCheckerNow, mapped,
                                 Pages_get_page(BorrowCheckerNow, mapped, old_id), new_id_))

\* a PageHandle of page id is dropped, and its BorrowRAIIGuard with it
DropHandle(id, kind) ==
  /\ guards[id][kind] > 0
  /\ guards' = [guards EXCEPT ![id][kind] = @ - 1]
  /\ call' = [fn |-> "drop", id |-> id, entry |-> borrows[id], before |-> guards[id],
              result |-> "none"]
  /\ UNCHANGED <<vars, appender, testNode, testRes, borrows, borrowsPoisoned, mapped>>

\* Pages::extend(to), which takes &mut self: no handle is alive
Extend(to) ==
  /\ \A id \in PageIds : guards[id] = NoGuards
  /\ to = NoPage \/ to > mapped
  /\ mapped' = IF to = NoPage THEN mapped ELSE to
  /\ call' = [fn |-> "extend", id |-> to, entry |-> borrows[to], before |-> NoGuards,
              result |-> IF to = NoPage THEN "panic" ELSE "Ok"]
  /\ UNCHANGED <<vars, appender, testNode, testRes, borrows, guards, borrowsPoisoned>>

InitPages == InitWith(0)
NextPages ==
  \/ \E id \in PageIds : GetPage(id)
  \/ \E id \in PageIds : MutPage(id)
  \/ \E old_id, new_id_ \in PageIds : MakeShadow(old_id, new_id_)
  \/ \E id \in PageIds, kind \in {"Shared", "Exclusive"} : DropHandle(id, kind)
  \/ \E to \in PageIds : Extend(to)
SpecPages == InitPages /\ [][NextPages]_allVars

\* ------------------------------------------------- the blob file on its own
\* the lengths of the blobs handed to append: around 0, 2^SZ_BITS and
\* MAX_BLOB_SIZE
AppendLens ==
  {0, 4, 6, 2 ^ SZ_BITS - 4, 2 ^ SZ_BITS, 2 ^ SZ_BITS + 1, 2 ^ SZ_BITS + 4,
   MAX_BLOB_SIZE - 4, MAX_BLOB_SIZE, MAX_BLOB_SIZE + 4}
\* the lengths of the files opened: a new file, and around 2^POS_BITS
OpenPositions ==
  {U64(0, DATA_START),
   U64(2 ^ (POS_BITS - LimbBits) - 1, Limb - 8), U64(2 ^ (POS_BITS - LimbBits) - 1, Limb - 4),
   U64(2 ^ (POS_BITS - LimbBits) - 1, Limb - 1),
   U64(2 ^ (POS_BITS - LimbBits), 0), U64(2 ^ (POS_BITS - LimbBits), 1),
   U64(2 ^ (POS_BITS - LimbBits), 4)}

\* Appender::new / MmapedAppendOnlyFile::new on a file of pos bytes: the next
\* record goes to its end
AppenderOpen(kind, pos) ==
  /\ appender = NoAppender
  /\ appender' = [NoAppender EXCEPT !.kind = kind, !.next_pos = pos]
  /\ UNCHANGED <<vars, testNode, testRes, borrows, guards, borrowsPoisoned, mapped, call>>

\* append(buf) with a blob of len bytes
AppenderAppend(len) ==
  /\ appender.kind # "none"
  /\ appender.calls < MaxAppendCalls
  /\ appender' = [appender EXCEPT
                    !.next_pos = append_at(appender.kind, len, @).next_pos,
                    !.calls = @ + 1,
                    !.last = [len |-> len, pos |-> appender.next_pos,
                              status |-> append_at(appender.kind, len, appender.next_pos).status,
                              written |-> append_at(appender.kind, len, appender.next_pos).written]]
  /\ UNCHANGED <<vars, testNode, testRes, borrows, guards, borrowsPoisoned, mapped, call>>

InitAppend == InitWith(0)
NextAppend ==
  \/ \E kind \in {"Appender", "MmapedAppendOnlyFile"}, pos \in OpenPositions :
       AppenderOpen(kind, pos)
  \/ \E len \in AppendLens : AppenderAppend(len)
SpecAppend == InitAppend /\ [][NextAppend]_allVars

\* ------------------------------------------------------------------ claims
\* the page ids reachable from a root through the children of internal nodes
RECURSIVE reachable_from(_, _, _)
reachable_from(pgs, id, fuel) ==
  IF id = NoPage THEN {}
  ELSE IF fuel = 0 \/ get_page(pgs, id).leaf THEN {id}
  ELSE {id} \cup UNION {reachable_from(pgs, get_page(pgs, id).ptrs[i], fuel - 1) :
                          i \in DOMAIN get_page(pgs, id).ptrs}

reachable(pgs, root) == reachable_from(pgs, root, MaxDepth)

\* the Versions a ReadTx holds
HeldVersions == {readers[r] : r \in {x \in Readers : readers[x].vid # NoVersion.vid}}
\* the live Versions: the latest one, those held, those in the retired queue
LiveVersions == {latest} \cup HeldVersions \cup Range(versions)
\* no facade call is running
Quiescent == \A w \in Writers : pc[w] = "idle"
\* BTreeStore::get of every key
GetAll == [k \in Keys |-> get(k)]
\* writer w is in a BTreeStore::insert, with a blob that append accepts, of a
\* key the latest Version holds: up to its insert in the transaction the key
\* is found, afterwards insert_one has returned DuplicatedKey
InsertOfPresentKey(w) ==
  /\ op[w].kind = "insert"
  /\ append_accepts(op[w].batch[1][2])
  /\ \/ /\ pc[w] \in {"append_load", "append_write", "lock_pm", "lock_ver", "tx"}
        /\ pc[w] = "tx" => op[w].todo # <<>>
        /\ lookup(pages, latest.root, op[w].batch[1][1]).status = "Some"
     \/ op[w].result = "DuplicatedKey"

\* C1: once the inserts of pairwise-distinct keys have committed and returned,
\* get of each of these keys returns the blob committed with it, and get of a
\* key no committed insert put returns None
C1_LookupCorrectness ==
  (Quiescent /\ \A x, y \in committed : x[1] = y[1] => x = y)
    => /\ \A it \in committed : get(it[1]) = [status |-> "Some", blob |-> it[2]]
       /\ \A k \in Keys : (\A it \in committed : it[1] # k) => get(k).status = "None"

\* C2 as stated: a BTreeStore::insert of a key already present returns
\* DuplicatedKey and no step of the call changes the latest Version, the
\* pages, the page manager or the blob file
C2_DuplicateLeavesStoreUnchanged ==
  [][\A w \in Writers :
       InsertOfPresentKey(w)
         => /\ latest' = latest /\ pages' = pages /\ pm' = pm /\ flat' = flat
            /\ pc'[w] = "idle" => res'[w].status = "DuplicatedKey"]_vars

\* C2 amended: a BTreeStore::insert of a key already present, with a blob the
\* blob file accepts, returns DuplicatedKey and publishes nothing: no step of
\* the call changes the latest Version, the pages or what get returns for any
\* key; the append grows the blob file by the record of the rejected blob and
\* the dropped transaction has taken a page id from the page manager
C2_DuplicateRejected ==
  [][\A w \in Writers :
       InsertOfPresentKey(w)
         => /\ latest' = latest /\ pages' = pages /\ GetAll' = GetAll
            /\ pc'[w] = "idle" => res'[w].status = "DuplicatedKey"
            /\ pc[w] = "append_write"
                 => flat'.next_pos = flat.next_pos + 4 + Len(op[w].batch[1][2])
            /\ pc[w] = "tx" => pm' # pm /\ pc'[w] = "cp_pm" /\ ~tx'.open]_vars

\* C2 witness: an insert of a present key has returned DuplicatedKey
C2_Witness ==
  \E w \in Writers : res[w] = [kind |-> "insert", status |-> "DuplicatedKey", done |-> 0]

\* C3: every lookup through a held ReadTx returns what it returned when the
\* ReadTx was created, whatever committed or was checkpointed since
C3_SnapshotIsolation ==
  \A r \in Readers :
    readers[r].vid # NoVersion.vid => lookups(pages, readers[r].root) = seen[r].lookups

\* C4: a ReadTx created after commits returned holds the latest Version and
\* finds every key those commits inserted
C4_ReadAfterCommit ==
  [][\A r \in Readers :
       (readers[r].vid = NoVersion.vid /\ readers'[r].vid # NoVersion.vid)
         => /\ readers'[r] = latest
            /\ \A it \in committed : seen'[r].lookups[it[1]].status = "Some"]_vars

\* C5: at most one of {an open insert transaction, an outstanding Checkpoint}
\* exists, and while one exists no thread can take the page_manager lock or
\* the versions lock in insert_transaction or collect_pending
C5_WriterMutualExclusion ==
  /\ Cardinality({w \in Writers : pc[w] \in {"tx", "publish", "hung", "cp"}}) <= 1
  /\ tx.open <=> \E w \in Writers : pc[w] \in {"tx", "publish", "hung"}
  /\ cp.held <=> \E w \in Writers : pc[w] = "cp"
  /\ (tx.open \/ cp.held)
       => \A w \in Writers : /\ ~ENABLED InsertLockPageManager(w)
                             /\ ~ENABLED insert_transaction(w)
                             /\ ~ENABLED CollectLockPageManager(w)
                             /\ ~ENABLED collect_pending(w)

\* C5 witness: an insert transaction is open while the other writer waits for
\* the page_manager lock
C5_Witness == tx.open /\ \E w \in Writers : pc[w] = "lock_pm"

\* C6: read_transaction can always run, and returns the latest Version, also
\* while an insert transaction is open or a Checkpoint is held; and whatever
\* the readers hold, a writer that finds the lock it waits for free, or that
\* holds the locks, can take its next step
C6_ReadersWritersDoNotBlock ==
  /\ \A r \in Readers :
       readers[r].vid = NoVersion.vid
         => ENABLED (read_transaction(r) /\ readers'[r] = latest)
  /\ \A w \in Writers :
       /\ (pc[w] = "lock_pm" /\ pmLock = NoThread) => ENABLED InsertLockPageManager(w)
       /\ (pc[w] = "lock_ver" /\ verLock = NoThread) => ENABLED insert_transaction(w)
       /\ (pc[w] = "tx" /\ op[w].todo = <<>>) => ENABLED CommitWritePages(w)
       /\ pc[w] = "publish" => ENABLED CommitPublish(w)
       /\ (pc[w] = "cp_pm" /\ pmLock = NoThread) => ENABLED CollectLockPageManager(w)
       /\ (pc[w] = "cp_ver" /\ verLock = NoThread) => ENABLED collect_pending(w)
       /\ pc[w] = "cp" => ENABLED CheckpointFinish(w)

\* C6 witness: a ReadTx created while an insert transaction was open is still
\* held while, after that commit, a Checkpoint is outstanding
C6_Witness ==
  \E r \in Readers : /\ readers[r].vid # NoVersion.vid
                     /\ seen[r].during = "tx"
                     /\ cp.held

\* C7: when the store is reopened after commits and their checkpoints, with no
\* reader outstanding, the metadata names the root of the latest Version, the
\* rebuilt store finds every committed key with its blob, and it finds no key
\* that no commit inserted
C7_Durability ==
  [][(latest'.vid = 0 /\ latest' # latest)
       => /\ metadata.root = latest.root
          /\ \A it \in committed : GetAll'[it[1]] = [status |-> "Some", blob |-> it[2]]
          /\ \A k \in Keys : (\A it \in committed : it[1] # k) => GetAll'[k].status = "None"]_vars

\* C8: no step of an insert_many before its commit, and none of one that
\* fails, changes the latest Version, the retired queue, the pages or the
\* result of any lookup; the failure leaves no transaction open and no lock
\* held; and an insert_many whose first key is already present does fail,
\* with DuplicatedKey
C8_FailedBatchAborts ==
  [][\A w \in Writers :
       (op[w].kind = "insert_many" /\ op[w].result # "Ok" /\ pc[w] # "publish"
          /\ (pc[w] = "tx" => op[w].todo # <<>>))
         => /\ latest' = latest /\ versions' = versions /\ pages' = pages
            /\ lookups(pages', latest'.root) = lookups(pages, latest.root)
            /\ (pc[w] = "tx" /\ op[w].todo = op[w].offsets
                  /\ lookup(pages, latest.root, Head(op[w].todo)[1]).status = "Some")
                 => pc'[w] = "idle" /\ res'[w].status = "DuplicatedKey"
            /\ (pc[w] = "tx" /\ pc'[w] = "idle")
                 => /\ res'[w].status # "Ok"
                    /\ ~tx'.open /\ pmLock' = NoThread /\ verLock' = NoThread]_vars

\* C8 witness: an insert_many has failed with DuplicatedKey after an earlier
\* insert of its batch succeeded
C8_Witness ==
  \E w \in Writers : /\ res[w].kind = "insert_many"
                     /\ res[w].status = "DuplicatedKey"
                     /\ res[w].done >= 1

\* C9: no page reachable from the root of a live Version is in the free list,
\* and no page id handed out to the open transaction is reachable from one
C9_LivePagesNotFree ==
  \A v \in LiveVersions :
    /\ reachable(pages, v.root) \cap Range(pm.free_list) = {}
    /\ reachable(pages, v.root) \cap DOMAIN tx.shadowed_pages = {}

\* C10: the commit of an insert transaction writes no page that is reachable
\* from the root of the latest Version or of a Version a ReadTx holds
C10_NoTornReads ==
  [][\A w \in Writers :
       (pc[w] = "tx" /\ pc'[w] = "publish")
         => \A v \in {latest} \cup HeldVersions :
              reachable(pages, v.root) \cap DOMAIN tx.shadowed_pages = {}]_vars

\* the page ids reachable from the root of some live Version
LivePages == UNION {reachable(pages, v.root) : v \in LiveVersions}
\* the page ids handed out to the open insert transaction
ReservedPages == DOMAIN tx.shadowed_pages

\* C11: the free list, the pages reachable from the root of a live Version
\* and the ids reserved by the open transaction are together exactly the ids
\* 1 .. next_page - 1
C11_PageAccounting ==
  Range(pm.free_list) \cup LivePages \cup ReservedPages = 1..(pm.next_page - 1)

\* the write transactions committed since the store was opened
Commits == nextVid - 1
\* no ReadTx is held and the checkpoint that followed has retired every
\* Version of the queue
AllRetired == Quiescent /\ HeldVersions = {} /\ versions = <<>>

\* C12: after N commits that each shadowed a page, with every reader dropped
\* and the checkpoint run, the free list holds at least N - 1 page ids
C12_PageReclamation ==
  (AllRetired /\ latest.transaction.shadowed_pages # <<>>)
    => Len(pm.free_list) >= Commits - 1

\* the lengths of the paths from page id down to a leaf; -1 stands for a
\* path that meets no leaf within MaxDepth nodes
RECURSIVE path_lengths(_, _, _)
path_lengths(pgs, id, fuel) ==
  IF get_page(pgs, id).leaf THEN {0}
  ELSE IF fuel = 0 THEN {-1}
  ELSE UNION {{IF n = -1 THEN -1 ELSE n + 1 :
                 n \in path_lengths(pgs, get_page(pgs, id).ptrs[i], fuel - 1)} :
                i \in DOMAIN get_page(pgs, id).ptrs}

\* the Versions published: the latest one and those of the retired queue
Published == {latest} \cup Range(versions)

\* C13: in the tree under the root of every published Version every path
\* from the root ends at a leaf and all these paths have the same length
C13_Balanced ==
  \A v \in Published :
    \E d \in 0..MaxDepth : path_lengths(pages, v.root, MaxDepth) = {d}

\* the keys of node are strictly ascending
Ascending(node) == \A i, j \in DOMAIN node.keys : i < j => node.keys[i] < node.keys[j]
\* the leaves among the pages under a root
Leaves(pgs, root) == {id \in reachable(pgs, root) : get_page(pgs, id).leaf}

\* C15: in the tree of every published Version the keys of each node are
\* strictly ascending and no key is held by two leaves
C15_KeysAscendingUnique ==
  \A v \in Published :
    /\ \A id \in reachable(pages, v.root) : Ascending(get_page(pages, id))
    /\ \A a, b \in Leaves(pages, v.root) :
         a # b => Range(get_page(pages, a).keys) \cap Range(get_page(pages, b).keys) = {}

\* C15 witness: the root leaf of the latest Version is full, its second key
\* inserted by a later transaction than the first
C15_Witness ==
  /\ get_page(pages, latest.root).leaf
  /\ Len(get_page(pages, latest.root).keys) = LeafCap
  /\ latest.vid >= 2

\* the capacity of a node, and ceil(cap / 2)
Cap(n) == IF n.leaf THEN LeafCap ELSE InternalCap
HalfFull(cap) == (cap + 1) \div 2

C16_BorrowDiscipline ==
  /\ \A id \in PageIds :
       guards[id].Exclusive = 0 \/ (guards[id].Exclusive = 1 /\ guards[id].Shared = 0)
  /\ (call.fn = "mut_page" /\ call.before # NoGuards) => call.result = "panic"
  /\ (call.fn = "get_page" /\ call.before.Exclusive > 0) => call.result = "panic"
  /\ (call.fn = "get_page" /\ call.before.Exclusive = 0 /\ call.before.Shared > 0)
       => call.result = "Some"

\* the last handle of page id has just been dropped, or mut_page(id) has
\* just returned Err because the page is not mapped
BorrowEnded(id) ==
  /\ call.id = id
  /\ \/ call.fn = "drop" /\ guards[id] = NoGuards
     \/ call.fn = "mut_page" /\ call.result = "Err"

\* C17: once the last handle of a page has been dropped, and likewise after
\* mut_page returned Err, the page is unborrowed and the get_page or mut_page
\* on that id that follows does not panic
C17_BorrowEndsWithHandle ==
  [][\A id \in PageIds :
       (BorrowEnded(id) /\ call'.fn \in {"get_page", "mut_page"} /\ call'.id = id)
         => /\ call'.before = NoGuards
            /\ call'.result # "panic"]_allVars

Entries(n) == {<<n.keys[i], n.ptrs[i]>> : i \in DOMAIN n.keys}
\* LeafNode::insert has split the leaf under test
LeafHasSplit == testRes.status = "Split" /\ testNode.leaf

\* C19 as stated: after a split the left leaf keeps ceil((cap + 1) / 2) of
\* the cap + 1 entries and the new right sibling the rest
C19_LeftKeepsCeil ==
  LeafHasSplit
    => /\ Len(testNode.keys) = (LeafCap + 2) \div 2
       /\ Len(testRes.new_node.keys) = LeafCap + 1 - (LeafCap + 2) \div 2

\* C19 amended: after a split the left leaf keeps floor((cap + 1) / 2) of the
\* cap + 1 entries, 1 of 3 at capacity 2, and the new right sibling the rest
C19_LeftKeepsFloor ==
  LeafHasSplit
    => /\ Len(testNode.keys) = (LeafCap + 1) \div 2
       /\ Len(testRes.new_node.keys) = LeafCap + 1 - (LeafCap + 1) \div 2

\* C19 witness: a full leaf has split on the insert of a key above its keys
C19_Witness ==
  /\ LeafHasSplit
  /\ Len(testRes.before.keys) = LeafCap
  /\ \A k \in Range(testRes.before.keys) : k < testRes.key

\* the keys of the leaf before the split and the inserted one
SplitKeys == Range(testRes.before.keys) \cup {testRes.key}
Smallest(S) == CHOOSE x \in S : \A y \in S : x <= y

\* C20: after a split the two leaves hold exactly the old entries and the new
\* one, each value with its key; every key of the left leaf is below every
\* key of the right one; mid_key is the smallest key of the right one; and
\* the halves depend only on the set of keys: the left leaf holds the
\* smallest key, the right one the others in order (keys 1, 2, 3: left 1,
\* right 2 3, mid_key 2)
C20_LeafSplitPostcondition ==
  LeafHasSplit
    => /\ Entries(testNode) \cup Entries(testRes.new_node)
            = Entries(testRes.before) \cup {<<testRes.key, testRes.value>>}
       /\ Len(testNode.keys) + Len(testRes.new_node.keys) = LeafCap + 1
       /\ \A a \in Range(testNode.keys), b \in Range(testRes.new_node.keys) : a < b
       /\ testRes.mid = Smallest(Range(testRes.new_node.keys))
       /\ Ascending(testNode) /\ Ascending(testRes.new_node)
       /\ testNode.keys = <<Smallest(SplitKeys)>>
       /\ Range(testRes.new_node.keys) = SplitKeys \ {Smallest(SplitKeys)}
       /\ SplitKeys = {1, 2, 3}
            => /\ testNode.keys = <<1>>
               /\ testRes.new_node.keys = <<2, 3>>
               /\ testRes.mid = 2

\* C20 witness: the leaf holding 2 and 3 has split on the insert of 1
C20_Witness ==
  /\ LeafHasSplit
  /\ testRes.before.keys = <<2, 3>>
  /\ testRes.key = 1

\* InternalNode::insert has split the node under test
InternalHasSplit == testRes.status = "Split" /\ ~testNode.leaf
\* the children of the node before the insert, with the inserted child put
\* right after the slot its key takes
ChildrenWithInserted ==
  InsertAt(testRes.before.ptrs,
           Cardinality({i \in DOMAIN testRes.before.keys :
                          testRes.before.keys[i] < testRes.key}) + 2,
           testRes.value)

\* C21: after an internal split mid_key is in neither node, the left node
\* holds the keys below it and the right node the keys above it, each node
\* has one more child than keys, and the left children followed by the right
\* ones are the old children with right_child right after the slot of the
\* inserted key (keys 1, 2, 3, each with its own number as child, after
\* child 0: left keys 1 children 0 1, right keys 3 children 2 3, mid_key 2)
C21_InternalSplitPostcondition ==
  InternalHasSplit
    => /\ testRes.mid \notin Range(testNode.keys) \cup Range(testRes.new_node.keys)
       /\ Range(testNode.keys) = {k \in SplitKeys : k < testRes.mid}
       /\ Range(testRes.new_node.keys) = {k \in SplitKeys : k > testRes.mid}
       /\ testRes.mid \in SplitKeys
       /\ Ascending(testNode) /\ Ascending(testRes.new_node)
       /\ Len(testNode.ptrs) = Len(testNode.keys) + 1
       /\ Len(testRes.new_node.ptrs) = Len(testRes.new_node.keys) + 1
       /\ testNode.ptrs \o testRes.new_node.ptrs = ChildrenWithInserted
       /\ (SplitKeys = {1, 2, 3} /\ ChildrenWithInserted = <<0, 1, 2, 3>>)
            => /\ testNode = InternalNode(<<1>>, <<0, 1>>)
               /\ testRes.new_node = InternalNode(<<3>>, <<2, 3>>)
               /\ testRes.mid = 2

\* C21 witness: the internal node with keys 2 and 3 has split on the insert
\* of key 1, every key with its own number as child
C21_Witness ==
  /\ InternalHasSplit
  /\ testRes.before = InternalNode(<<2, 3>>, <<0, 2, 3>>)
  /\ testRes.key = 1 /\ testRes.value = 1

\* the last insert of the open transaction split the root
RootHasSplit == tx.open /\ tx.last.split # NoSplit
\* the node an id names inside the open transaction: its copy in the shadow
\* map when there is one, the stored page otherwise
tx_page(id) ==
  IF id \in DOMAIN tx.shadowed_pages THEN tx.shadowed_pages[id] ELSE get_page(pages, id)
\* the root a split must leave: one key, the split key, and two children,
\* the leaf that split and its new sibling
SplitRoot == InternalNode(<<tx.last.split.mid>>, <<tx.last.split.left, tx.last.split.right>>)

\* C22 (state part): when the root splits during an insert, the transaction's
\* current_root becomes a fresh internal node with exactly one key, the mid
\* key, and two children, the copy of the old root and the new sibling (keys
\* 1, 2, 3: left leaf 1, right leaf 2 3, root key 2)
CurrentRootAfterSplit ==
  RootHasSplit
    => /\ tx.current_root = tx.last.new_root
       /\ tx.current_root # latest.root
       /\ tx_page(tx.current_root) = SplitRoot
       /\ tx_page(tx.last.split.left).leaf /\ tx_page(tx.last.split.right).leaf
       /\ \A k \in Range(tx_page(tx.last.split.left).keys) : k < tx.last.split.mid
       /\ \A k \in Range(tx_page(tx.last.split.right).keys) : k >= tx.last.split.mid
       /\ (Range(tx_page(tx.last.split.left).keys)
             \cup Range(tx_page(tx.last.split.right).keys) = {1, 2, 3})
            => /\ tx_page(tx.last.split.left).keys = <<1>>
               /\ tx_page(tx.last.split.right).keys = <<2, 3>>
               /\ tx.last.split.mid = 2

\* C22 (commit part): the Version published by the commit of a transaction
\* whose last insert split the root has the new internal node as its root
PublishedRootAfterSplit ==
  (RootHasSplit /\ latest' # latest)
    => /\ latest'.root = tx.last.new_root
       /\ get_page(pages', latest'.root) = SplitRoot

\* C22: a root split makes a fresh internal node with the mid key and the
\* two halves as children the transaction's current_root, and the Version
\* published at commit has this node as its root
C22_RootSplit == []CurrentRootAfterSplit /\ [][PublishedRootAfterSplit]_vars

\* an insert has returned Ok(()) in the open transaction
InsertDone == tx.open /\ tx.last # NoBacktrack

\* C30 (as claimed): during one insertion new_root is set by at most one of
\* the two paths, the pop of the last frame or the creation of a new
\* internal root, never by both
C30_SingleRootUpdate == InsertDone => Len(tx.last.sets) <= 1

\* C30 (amended): each path sets new_root at most once, the pop of the last
\* frame first, and both run exactly when the root splits; the id that
\* remains is then the one of the new internal root
C30_RootSetOncePerPath ==
  InsertDone
    => /\ tx.last.sets \in {<<>>, <<"on_next">>, <<"on_next", "new_root">>}
       /\ (Len(tx.last.sets) = 2) <=> (tx.last.split # NoSplit)
       /\ tx.last.split # NoSplit => tx_page(tx.last.new_root) = SplitRoot
       /\ tx.last.split = NoSplit /\ tx.last.sets # <<>> => tx_page(tx.last.new_root).leaf

\* C30 witness: the insert of key 3 has split the root leaf and new_root was
\* set on both paths
C30_Witness ==
  /\ InsertDone
  /\ tx.last.key = 3
  /\ tx.last.sets = <<"on_next", "new_root">>
  /\ pc["w1"] = "tx"

\* an append has returned
Appended == appender.last.status # "none"

\* C25: append accepts a blob exactly when its length is at most 16 MiB
\* (2^24 bytes) and the position it would be written at is at most 2^40 - 1;
\* a rejected append writes nothing
C25_BlobFileLimits ==
  Appended
    => /\ (appender.last.status = "Ok")
            <=> /\ appender.last.len <= 2 ^ 24
                /\ ~u64_gt(appender.last.pos, U64(2 ^ 20 - 1, Limb - 1))
       /\ appender.last.status = "Err"
            => appender.last.written = 0 /\ appender.next_pos = appender.last.pos

\* a step in which the store is opened again (TransactionManager::new)
Reopened == nextVid' = 1 /\ versions' = <<>> /\ latest' = TransactionManager_new(metadata, 0)
\* every Version a reader holds is the latest one or is in the retired queue
HeldArePublished == HeldVersions \subseteq {latest} \cup Range(versions)
\* the retired queue is in the order of the commits, all before the latest
InCommitOrder ==
  /\ \A i, j \in DOMAIN versions : i < j => versions[i].vid < versions[j].vid
  /\ \A i \in DOMAIN versions : versions[i].vid < latest.vid
\* latest is replaced, and the queue grows, only together: the previous
\* latest goes to the back of the queue in the step that installs the new one
PublishedInOneStep ==
  (~Reopened /\ (latest' # latest \/ Len(versions') > Len(versions)))
    => /\ versions' = Append(versions, latest)
       /\ latest'.vid > latest.vid

\* C26: commit pushes the previous latest Version to the back of the retired
\* queue and installs the new one as latest in one step, so that every
\* Version a reader holds is the latest or is in the retired queue, and the
\* queue is always in commit order
C26_CommitPublishesAtomically ==
  [](HeldArePublished /\ InCommitOrder) /\ [][PublishedInOneStep]_vars

\* C26 witness: after two commits a reader holds the Version that was the
\* latest between them, now retired behind the initial one
C26_Witness ==
  /\ Len(versions) = 2
  /\ \E r \in Readers : readers[r] = versions[2]
  /\ latest.vid = 2

\* writer w makes the step of collect_pending that pops the queue
CollectPendingStep(w) == pc[w] = "cp_ver" /\ pc'[w] # "cp_ver"
\* no reader holds the Version
Unheld(v) == \A r \in Readers : readers[r] # v
\* the step pops the first n Versions of the queue, none of them held, up to
\* a held one or the end, and releases their shadowed pages, in order
PopsPrefix(n) ==
  /\ \A j \in 1..n : Unheld(versions[j])
  /\ n < Len(versions) => ~Unheld(versions[n + 1])
  /\ versions' = SubSeq(versions, n + 1, Len(versions))
  /\ pm'.free_list = pm.free_list \o pages_to_release(SubSeq(versions, 1, n))
\* the step changes nothing and the checkpoint is over
CheckpointIsNoOp(w) ==
  /\ pm' = pm /\ versions' = versions /\ metadata' = metadata /\ cp' = cp
  /\ pc'[w] = "idle"
CollectPendingPopsPrefix ==
  \A w \in Writers :
    CollectPendingStep(w)
      => /\ \E n \in 0..Len(versions) : PopsPrefix(n)
         /\ (versions = <<>> \/ ~Unheld(Head(versions))) => CheckpointIsNoOp(w)
         /\ (versions # <<>> /\ Unheld(Head(versions))) => cp'.held /\ pc'[w] = "cp"

\* C27: a checkpoint pops exactly the longest prefix of the retired queue
\* whose Versions no reader holds and releases to the free list exactly the
\* shadowed_pages of the popped Versions; a Version behind a held head stays
\* queued, its pages unreleased; with an empty prefix the checkpoint changes
\* neither the page manager, the queue nor the metadata
C27_CheckpointPopsUnheldPrefix == [][CollectPendingPopsPrefix]_vars

\* C27 witness: every call has returned, the last checkpoint after the last
\* commit, and a Version nobody holds is still queued behind a held one
C27_Witness ==
  /\ Quiescent
  /\ \A w \in Writers : res[w].status = "Ok"
  /\ Len(versions) = 2
  /\ ~Unheld(versions[1]) /\ Unheld(versions[2])
  /\ versions[1].transaction.shadowed_pages # <<>>

\* the last Version a step that shortens the queue pops
LastPopped == versions[Len(versions) - Len(versions')]
\* the step of collect_pending that pops at least one Version builds the
\* Metadata from the last popped Version and the page manager after the
\* releases, and leaves next_page of the page manager alone
CheckpointBuildsMetadata ==
  \A w \in Writers :
    (CollectPendingStep(w) /\ Len(versions') < Len(versions))
      => /\ cp'.held
         /\ cp'.new_metadata.root = LastPopped.transaction.new_root
         /\ cp'.new_metadata.page_manager.next_page = LastPopped.transaction.next_page_id
         /\ cp'.new_metadata.page_manager.free_list = pm'.free_list
         /\ pm'.next_page = pm.next_page
\* C28: the Metadata of a checkpoint that popped at least one Version has
\* the new_root of the last popped Version as root, that Version's
\* next_page_id as next_page and the free list of the page manager after the
\* releases; next_page of the in-memory page manager is left unchanged
C28_CheckpointMetadata == [][CheckpointBuildsMetadata]_vars

\* C28 witness: a Checkpoint is held whose Metadata has a next_page behind
\* the page manager's and a free list with released pages
C28_Witness ==
  /\ cp.held
  /\ cp.new_metadata.page_manager.next_page < pm.next_page
  /\ cp.new_metadata.page_manager.free_list # <<>>
  /\ cp.new_metadata.page_manager.free_list = pm.free_list

\* the pages as the open transaction sees them
TxPages == [id \in (DOMAIN pages) \cup (DOMAIN tx.shadowed_pages) |-> tx_page(id)]
\* the ids of the nodes a descent for key passes, from id down to the leaf
RECURSIVE path_to(_, _, _, _)
path_to(pgs, id, key, fuel) ==
  IF id = NoPage \/ fuel = 0 THEN {}
  ELSE IF get_page(pgs, id).leaf THEN {id}
  ELSE {id} \cup path_to(pgs, child_for(get_page(pgs, id), key), key, fuel - 1)

\* C29: after an insert in a write transaction the tree under the
\* transaction's current_root is made of new copies only: every node on the
\* path of the inserted key is held in the shadow map (so each parent names
\* the new id of its child), and no id recorded as shadowed is reachable from
\* current_root
C29_ShadowingRule ==
  InsertDone
    => /\ path_to(TxPages, tx.current_root, tx.last.key, MaxDepth)
            \subseteq DOMAIN tx.shadowed_pages
       /\ Range(tx.old_ids) \cap reachable(TxPages, tx.current_root) = {}

\* ------------------------------------------- whole calls, one after another
\* a store between calls: S = [pages, latest, versions, pm, nextVid,
\* next_pos, status], status being what the last call returned
StoreNow ==
  [pages |-> pages, latest |-> latest, versions |-> versions, pm |-> pm,
   nextVid |-> nextVid, next_pos |-> flat.next_pos, status |-> "Ok"]

\* BTreeStore::insert_many: the loop of appends, giving (key, offset) pairs
RECURSIVE append_all(_, _)
append_all(batch, next_pos) ==
  IF batch = <<>> THEN <<>>
  ELSE <<<<Head(batch)[1], next_pos>>>>
         \o append_all(Tail(batch), next_pos + 4 + Len(Head(batch)[2]))

\* BTree::insert_many: insert(tx, key, value) for each pair, up to the first
\* that does not return Ok
RECURSIVE insert_all(_, _, _)
insert_all(pgs, st, offs) ==
  IF offs = <<>> THEN [status |-> "Ok", st |-> st]
  ELSE IF insert(pgs, st, Head(offs)[1], Head(offs)[2]).status # "Ok"
    THEN [status |-> insert(pgs, st, Head(offs)[1], Head(offs)[2]).status,
          st |-> insert(pgs, st, Head(offs)[1], Head(offs)[2]).st]
  ELSE insert_all(pgs, insert(pgs, st, Head(offs)[1], Head(offs)[2]).st, Tail(offs))

\* InsertTransactionBuilder::commit on the store S with the builder st
builder_commit(S, st) ==
  [S EXCEPT !.pages = [id \in (DOMAIN S.pages) \cup (DOMAIN st.shadowed_pages) |->
                         IF id \in DOMAIN st.shadowed_pages
                           THEN st.shadowed_pages[id] ELSE S.pages[id]],
            !.versions = Append(S.versions, S.latest),
            !.latest = [vid |-> S.nextVid, root |-> st.current_root,
                        transaction |-> [new_root |-> st.current_root,
                                         shadowed_pages |-> st.old_ids,
                                         next_page_id |-> st.pm.next_page]],
            !.nextVid = S.nextVid + 1,
            !.pm = st.pm]

\* collect_pending on the store S
store_collect_pending(S) ==
  [S EXCEPT !.versions = SubSeq(S.versions, pop_count(S.versions) + 1, Len(S.versions)),
            !.pm = release_all(S.pm, pages_to_release(
                                       SubSeq(S.versions, 1, pop_count(S.versions))))]

\* insert_many, after the transaction t of its inserts: commit and checkpoint,
\* or the error
store_after_tx(S, t) ==
  IF t.status # "Ok"
    THEN [S EXCEPT !.status = t.status, !.pm = t.st.pm]
    ELSE store_collect_pending(builder_commit(S, t.st))

\* BTreeStore::insert_many(batch) on the store S, run alone from its call to
\* its return
store_insert_many(S, batch) ==
  IF S.status # "Ok" THEN S
  ELSE store_after_tx(
         [S EXCEPT !.next_pos = IF batch = <<>> THEN S.next_pos
                                ELSE Last(append_all(batch, S.next_pos))[2]
                                       + 4 + Len(Last(batch)[2])],
         insert_all(S.pages,
                    [current_root |-> S.latest.root, shadowed_pages |-> EmptyMap,
                     old_ids |-> <<>>, pm |-> S.pm],
                    append_all(batch, S.next_pos)))

\* the lookups of every key in the store S
store_lookups(S) == [k \in Keys |-> lookup(S.pages, S.latest.root, k)]
\* one-key batches of accepted blobs
UnitBatches == {<<<<k, TreeBlob>>>> : k \in Keys}

\* C24: for batches xs and ys with disjoint keys, insert_many(xs) followed by
\* insert_many(ys) leaves the same state, as the lookups of every key show
\* it, as insert_many(xs ++ ys)
C24_BatchesCompose ==
  (Quiescent /\ ~poisoned)
    => \A xs, ys \in UnitBatches :
         (/\ xs[1][1] # ys[1][1]
          /\ store_insert_many(store_insert_many(StoreNow, xs), ys).status = "Ok"
          /\ store_insert_many(StoreNow, xs \o ys).status = "Ok")
           => store_lookups(store_insert_many(store_insert_many(StoreNow, xs), ys))
                = store_lookups(store_insert_many(StoreNow, xs \o ys))

\* BTreeStore::insert, after the transaction t of its insert: commit, then the
\* checkpoint, which also runs when insert_one returned DuplicatedKey; the
\* result of insert_one is what the call returns
store_after_insert_one(S, t) ==
  IF t.status = "Ok" THEN store_collect_pending(builder_commit(S, t.st))
  ELSE IF t.status = "DuplicatedKey"
    THEN [store_collect_pending([S EXCEPT !.pm = t.st.pm]) EXCEPT !.status = t.status]
  ELSE [S EXCEPT !.status = t.status, !.pm = t.st.pm]

\* BTreeStore::insert(key, blob) on the store S, run alone from its call to
\* its return
store_insert(S, key, blob) ==
  IF S.status # "Ok" THEN S
  ELSE store_after_insert_one(
         [S EXCEPT !.next_pos = S.next_pos + 4 + Len(blob)],
         insert_all(S.pages,
                    [current_root |-> S.latest.root, shadowed_pages |-> EmptyMap,
                     old_ids |-> <<>>, pm |-> S.pm],
                    <<<<key, S.next_pos>>>>))

\* the store as BTreeStore::new leaves it
NewStore ==
  /\ Quiescent
  /\ pages = Put(EmptyMap, FirstPage, new_leaf)
  /\ latest = TransactionManager_new(InitialMetadata, 0)
  /\ versions = <<>>
  /\ pm = InitialMetadata.page_manager
  /\ flat.next_pos = DATA_START
\* the store after the inserts of keys 3, 2, 1, in that order
Inserted321 ==
  store_insert(store_insert(store_insert(StoreNow, 3, TreeBlob), 2, TreeBlob), 1, TreeBlob)
\* the root node of the store S
store_root(S) == get_page(S.pages, S.latest.root)

\* C23: the inserts of keys 3, 2, 1, in that order, into an empty store of
\* leaf capacity 2 yield a tree whose left leaf holds 1 and 2 and whose right
\* leaf holds 3, in which keys 1 and 3 are found with the values inserted
C23_InsertAtFrontSplit ==
  NewStore
    => /\ Inserted321.status = "Ok"
       /\ ~store_root(Inserted321).leaf
       /\ Len(store_root(Inserted321).ptrs) = 2
       /\ get_page(Inserted321.pages, store_root(Inserted321).ptrs[1]).leaf
       /\ get_page(Inserted321.pages, store_root(Inserted321).ptrs[1]).keys = <<1, 2>>
       /\ get_page(Inserted321.pages, store_root(Inserted321).ptrs[2]).leaf
       /\ get_page(Inserted321.pages, store_root(Inserted321).ptrs[2]).keys = <<3>>
       /\ lookup(Inserted321.pages, Inserted321.latest.root, 1)
            = [status |-> "Some", value |-> DATA_START + 2 * (4 + Len(TreeBlob))]
       /\ lookup(Inserted321.pages, Inserted321.latest.root, 3)
            = [status |-> "Some", value |-> DATA_START]

\* ------------------------------------------------------------------- C31
\* the descent the next insert of the batch makes, and its key and value
NextKey(w) == Head(op[w].todo)[1]
NextValue(w) == Head(op[w].todo)[2]
NextSearch(w) == search_for(pages, builder(w), tx.current_root, NextKey(w), <<>>, MaxDepth)

\* the next insert of w finds a full leaf under an internal parent
SplitUnderParent(w) ==
  /\ pc[w] = "tx" /\ op[w].todo # <<>>
  /\ NextSearch(w).status = "Ok"
  /\ Len(NextSearch(w).backtrack) >= 2
  /\ insert_in_leaf(Last(NextSearch(w).backtrack).page.node,
                    NextKey(w), NextValue(w)).status = "Split"

\* the split key of that leaf
NextMid(w) ==
  insert_in_leaf(Last(NextSearch(w).backtrack).page.node, NextKey(w), NextValue(w)).mid

\* C31: when a leaf that has an internal parent splits, the insert completes
\* successfully (the transaction stays open, nothing panics, the insert is
\* the last one done) and the separator is then a key of an internal node of
\* the transaction
C31_SplitPropagates ==
  [][\A w \in {"w1"} :
       SplitUnderParent(w) /\ tx' # tx
         => /\ tx'.open /\ ~poisoned'
            /\ tx'.last.key = NextKey(w)
            /\ \E id \in DOMAIN tx'.shadowed_pages :
                 /\ ~tx'.shadowed_pages[id].leaf
                 /\ NextMid(w) \in Range(tx'.shadowed_pages[id].keys)]_vars

\* ------------------------------------------------------------------- C32
\* no id is recorded as shadowed twice, and none that this transaction
\* allocated (the keys of the shadow map) is recorded as shadowed
ClonedAtMostOnce ==
  tx.open =>
    /\ \A i, j \in DOMAIN tx.old_ids : tx.old_ids[i] = tx.old_ids[j] => i = j
    /\ Range(tx.old_ids) \cap DOMAIN tx.shadowed_pages = {}

\* an insert of the batch that returns Ok leaves every id of the shadow map
\* in the shadow map
ShadowMapKept ==
  tx.open /\ tx'.open /\ tx' # tx => DOMAIN tx.shadowed_pages \subseteq DOMAIN tx'.shadowed_pages

\* C32: within one insert transaction every page is cloned at most once:
\* old_ids holds no id twice and no id allocated in the transaction, and a
\* page of the shadow map is still in it for the later inserts of the batch
C32_BatchReuse == []ClonedAtMostOnce /\ [][ShadowMapKept]_vars

\* ------------------------------------------------------------------- C33
\* the committed Versions still kept, in the order of the queue, the latest
\* last
CommitSequence == versions \o <<latest>>

\* C33: the writes are totally ordered by commit sequence, and two
\* consecutive committed writes have no shadowed page id in common
C33_ConsecutiveShadowsDisjoint ==
  \A i \in 1..(Len(CommitSequence) - 1) :
    /\ CommitSequence[i].vid < CommitSequence[i + 1].vid
    /\ Range(CommitSequence[i].transaction.shadowed_pages)
         \cap Range(CommitSequence[i + 1].transaction.shadowed_pages) = {}

\* ------------------------------------------------------------------- C34
\* the ids new_id handed out between the page managers p and q
Obtained(p, q) ==
  {id \in 1..q.next_page : p.next_page <= id /\ id < q.next_page}
    \cup (IF Len(q.free_list) < Len(p.free_list)
            THEN Range(SubSeq(p.free_list, Len(q.free_list) + 1, Len(p.free_list)))
            ELSE {})

\* new_id of the page manager m can return id again
Allocatable(m, id) == id \in Range(m.free_list) \/ id >= m.next_page

\* an insert of w returns an error and the builder is dropped without commit
AbortStep(w) ==
  /\ pc[w] = "tx" /\ tx.open /\ ~tx'.open
  /\ pc'[w] # "publish" /\ ~poisoned'

\* C34: when a write transaction is dropped without commit, the ids it
\* obtained are not put back (next_page stays advanced, the ids popped from
\* the free list stay removed), and the next checkpoint makes every id the
\* transaction obtained allocatable again
C34_AbortLeakReclaimed ==
  [][\A w \in Writers :
       AbortStep(w)
         => /\ pm'.next_page >= pm.next_page
            /\ Len(pm'.free_list) <= Len(pm.free_list)
            /\ \A id \in (DOMAIN tx.shadowed_pages) \cup Obtained(pm, pm') :
                 Allocatable(store_collect_pending(StoreNow').pm, id)]_vars

\* ------------------------------------------------------------------- C35
Descended == testRes.status = "Descent"
\* the number of keys of node n that are <= k
KeysUpTo(n, k) == Cardinality({j \in DOMAIN n.keys : n.keys[j] <= k})

\* C35: at an internal node of n keys and n + 1 children the descent for k
\* follows children[i], i the number of node keys <= k (0-based), which is
\* always an index of a child, so the clamp to the last child changes
\* nothing; a key equal to a separator goes to the child right of it, where a
\* leaf split leaves that key (mid_key is the smallest key of the right
\* sibling)
C35_DescentPolicy ==
  /\ Descended
       => /\ KeysUpTo(testRes.before, testRes.key) + 1 \in DOMAIN testRes.before.ptrs
          /\ testRes.value = testRes.before.ptrs[KeysUpTo(testRes.before, testRes.key) + 1]
          /\ \A j \in DOMAIN testRes.before.keys :
               testRes.before.keys[j] = testRes.key
                 => testRes.value = testRes.before.ptrs[j + 1]
  /\ LeafHasSplit
       => /\ testRes.mid = testRes.new_node.keys[1]
          /\ child_for(create_internal_node(FirstPage, FirstPage + 1, testRes.mid), testRes.mid)
               = FirstPage + 1

\* C35 witness: the descent for a key equal to the first separator of a node
\* of two keys and three different children
C35_Witness ==
  /\ Descended
  /\ Len(testRes.before.keys) = 2
  /\ testRes.key = testRes.before.keys[1]
  /\ Cardinality(Range(testRes.before.ptrs)) = 3

\* ------------------------------------------------------------------- C36
\* the i-th append of the facade call w is running has returned: its offset,
\* the bytes passed, and the end of its record
AppendPos(w, i) == op[w].offsets[i][2]
AppendBuf(w, i) == op[w].batch[i][2]
AppendEnd(w, i) == AppendPos(w, i) + 4 + Len(AppendBuf(w, i))

\* C36: the appends that returned, of all threads, have distinct offsets, the
\* records written do not overlap, and get_at of a returned offset yields
\* the bytes passed to that append
C36_ConcurrentAppendsSafe ==
  \A w \in Writers : \A i \in DOMAIN op[w].offsets :
    /\ get_at(flat, AppendPos(w, i)) = [status |-> "Some", blob |-> AppendBuf(w, i)]
    /\ \A v \in Writers : \A j \in DOMAIN op[v].offsets :
         (v # w \/ j # i)
           => /\ AppendPos(w, i) # AppendPos(v, j)
              /\ AppendEnd(w, i) <= AppendPos(v, j) \/ AppendEnd(v, j) <= AppendPos(w, i)

\* ------------------------------------------------------------------- C37
\* the step that makes a new Version the latest finds every page of the
\* committing transaction in the paged file, and writes none itself
WrittenWhenPublished ==
  latest' # latest
    => /\ pages' = pages
       /\ \A id \in DOMAIN tx.shadowed_pages :
            id \in DOMAIN pages /\ pages[id] = tx.shadowed_pages[id]

\* every page under the root of a Version a reader can hold is in the file
ReadersReachWritten ==
  \A v \in Published \cup HeldVersions : reachable(pages, v.root) \subseteq DOMAIN pages

\* C37: pages are written before the Version is published: when a new
\* Version becomes obtainable through read_transaction every page the
\* committing transaction created or shadowed is already in the paged store,
\* and no reader can reach a page that has not been written
C37_WrittenBeforePublished == []ReadersReachWritten /\ [][WrittenWhenPublished]_vars

\* C37 witness: a reader holds the Version a commit of a non-empty shadow map
\* has just published
C37_Witness ==
  /\ latest.vid >= 1
  /\ latest.transaction.shadowed_pages # <<>>
  /\ \E r \in Readers : readers[r] = latest

\* ------------------------------------------------------------------- C38
\* the Metadata md is consistent with the paged file
MetadataSound(md) ==
  /\ \A id \in Range(md.page_manager.free_list) : id < md.page_manager.next_page
  /\ \A id \in reachable(pages, md.root) : id < md.page_manager.next_page
  /\ Range(md.page_manager.free_list) \cap reachable(pages, md.root) = {}

\* C38: in every Metadata a checkpoint produces every id of the free list
\* and every page reachable from the root is smaller than next_page, and no
\* free-list id is reachable from the root
C38_CheckpointMetadataSound == cp.held => MetadataSound(cp.new_metadata)

\* ------------------------------------------------------------------- C39
\* versions is locked only by the holder of page_manager, and the write lock
\* of the latest version is taken only by the holder of both
LockOrder ==
  /\ verLock # NoThread => pmLock = verLock
  /\ \A w \in Writers : pc[w] = "publish" => pmLock = w /\ verLock = w

\* a thread that is in no operation holds no lock
ReleasedAtEnd ==
  \A w \in Writers : pc[w] = "idle" => pmLock # w /\ verLock # w

NextLeafStep(w) ==
  on_next_leaf(NextSearch(w).st, NextSearch(w).backtrack, NextKey(w), NextValue(w))

\* C40: the assertions of the insert backtrack never fire: rename_parent
\* finds the old id of the popped frame among the children of the parent
\* frame, and when the pop leaves the stack empty no new_root was assigned
\* before (the assignment of on_next is the first one made)
C40_BacktrackNeverPanics ==
  /\ \A w \in {"w1"} :
       (TxInsertEnabled(w) /\ NextSearch(w).status = "Ok")
         => NextLeafStep(w).status # "panic"
  /\ InsertDone
       => \A i \in DOMAIN tx.last.sets : tx.last.sets[i] = "on_next" => i = 1

\* C40 witness: the leaf frame about to be popped is a fresh copy under a
\* parent frame, in which rename_parent looks for its old id
C40_Witness ==
  /\ TxInsertEnabled("w1")
  /\ NextSearch("w1").status = "Ok"
  /\ Len(NextSearch("w1").backtrack) >= 2
  /\ Last(NextSearch("w1").backtrack).old_id # NoPage

====
